---- MODULE Spec2Model ----
(***************************************************************************)
(* Verification model of the WhatsApp agent backend: the per-user message  *)
(* queue gate, the rate limiter, the webhook route, the ARQ worker and the *)
(* Redis keys they share.                                                  *)
(*                                                                         *)
(* Spec     the HTTP path of POST /webhook (middleware stack, route,       *)
(*          worker jobs, Redis lock/queue with TTL expiry and errors)      *)
(* SpecSmall the same with fewer deliveries                                *)
(* SpecSeq  sequential UserQueueManager.append_message calls               *)
(* SpecRL   InMemoryRateLimiter.is_allowed under a clock                   *)
(***************************************************************************)
EXTENDS Integers, Sequences, FiniteSets, TLC

(***************************************************************************)
(* Bounds of the model.                                                    *)
(***************************************************************************)
\* number of POST /webhook deliveries explored (Spec)
MaxReqs == 3
\* number of POST /webhook deliveries explored (SpecSmall)
MaxSmallReqs == 2
\* number of sequential append_message calls explored (SpecSeq)
MaxCalls == 5
\* number of is_allowed calls explored (SpecRL)
MaxRLCalls == 5
\* last clock value explored (SpecRL), in seconds
MaxTime == 120
\* number of handle_incoming_webhook passes explored (SpecPipe)
MaxPasses == 2
\* number of generate_reply calls explored (SpecReply)
MaxReplyCalls == 2
\* longest hub.challenge explored, in characters (SpecFn)
MaxChallengeLen == 2
\* number of concurrent append_message calls and of drains (SpecDrain)
MaxDrainAppends == 3
MaxDrains == 2
\* number of broadcasts created (SpecCast)
MaxBroadcasts == 1
\* longest reply text explored, in words (SpecFn)
MaxTextLen == 3
\* longest X-Hub-Signature-256 explored, in pieces (SpecFn)
MaxHeaderLen == 3
\* number of whatsapp_service_v2 passes explored (SpecV2)
MaxV2Passes == 2
\* number of passes explored one after the other (SpecSend)
MaxSendPasses == 2
\* settings.USER_QUEUE_MAX_SIZE (default 10), scaled down
max_size == 1
\* settings.RATE_LIMIT_PER_MINUTE (default 60), scaled down
requests_per_minute == 3

(***************************************************************************)
(* Program constants.                                                      *)
(***************************************************************************)
\* timedelta(minutes=1), in seconds
WindowSeconds == 60
\* WorkerSettings.max_jobs
max_jobs == 10
\* settings.USER_QUEUE_ENABLED / settings.RATE_LIMIT_ENABLED defaults
USER_QUEUE_ENABLED == TRUE
RATE_LIMIT_ENABLED == TRUE

Phones == {"p1", "p2"}
\* the text body of the i-th delivery; deliveries carry distinct texts so that
\* order is observable
TextNames == <<"a", "b", "c", "d", "e", "f", "g", "h">>
Texts == {"a", "b"}
\* a payload without value.messages (a delivery-status event)
NoMsg == "<none>"
\* client IPs seen by the rate limiter
Idents == {"ip1", "ip2"}
\* the address the platform's webhook deliveries come from
WebhookIP == "ip1"
\* the configured app secret and some other key
APP_SECRET == "s3cret"
OtherKey == "other"

VARIABLES
    lock,       \* Redis: user_processing:<phone> exists
    queue,      \* Redis: user_queue:<phone> list
    qttl,       \* Redis: user_queue:<phone> has a TTL
    reqs,       \* the POST /webhook requests delivered so far
    arq,        \* the ARQ queue whatsapp:webhook: jobs with their state
    secret,     \* settings.WHATSAPP_APP_SECRET is configured
    requests,   \* InMemoryRateLimiter.requests
    now,        \* datetime.utcnow(), in seconds
    rlog,       \* history of is_allowed calls (SpecRL)
    users,      \* database: committed User rows
    convs,      \* database: committed Conversation rows
    msgs,       \* database: committed Message rows
    passes,     \* the handle_incoming_webhook invocations
    sent,       \* the messages handed to the messaging platform, in order
    calls,      \* the calls of the functions examined on their own
    broadcasts, \* database: committed Broadcast rows, by id
    tasks       \* the send_broadcast_messages background tasks, by broadcast id

vars == <<lock, queue, qttl, reqs, arq, secret, requests, now, rlog,
          users, convs, msgs, passes, sent, calls, broadcasts, tasks>>

redisVars == <<lock, queue, qttl>>
rlVars == <<requests, now, rlog>>
dbVars == <<users, convs, msgs>>
pipeVars == <<users, convs, msgs, passes, sent, calls>>
httpVars == <<lock, queue, qttl, reqs, arq, secret, requests, now, rlog>>
castVars == <<broadcasts, tasks>>

(***************************************************************************)
(* Pure helpers.                                                           *)
(***************************************************************************)
\* "\n\n".join(messages)
RECURSIVE JoinBlank(_)
JoinBlank(ms) ==
    IF ms = <<>> THEN ""
    ELSE IF Len(ms) = 1 THEN ms[1]
    ELSE ms[1] \o "\n\n" \o JoinBlank(Tail(ms))

\* hmac.new(key, body, sha256).hexdigest(): an injective tag of (key, body)
HexHmac(key, body) == <<"hmac", key, body>>

\* The X-Hub-Signature-256 header a delivery carries: absent, or a string, here
\* the sequence of its pieces (a literal text, or a hex digest).
Lit(text) == <<"lit", text>>
NoHeader == [present |-> FALSE, text |-> <<>>]
Header(prefix, digest) == [present |-> TRUE, text |-> <<Lit(prefix), digest>>]

\* signature.split("sha256=")[1] of a signature that starts with "sha256=":
\* what stands between the first "sha256=" and the next one, or the end
AfterPrefix(text) ==
    LET rest == Tail(text)
        stops == {k \in 1..Len(rest) : rest[k] = Lit("sha256=")}
        stop == IF stops = {} THEN Len(rest) + 1
                ELSE CHOOSE k \in stops : \A j \in stops : k <= j
    IN  SubSeq(rest, 1, stop - 1)

\* verify_webhook_signature(payload, signature, app_secret)
verify_webhook_signature(body, signature, app_secret) ==
    IF ~signature.present \/ signature.text = <<>> \/ app_secret = "" THEN FALSE
    ELSE IF signature.text[1] # Lit("sha256=") THEN FALSE
    ELSE AfterPrefix(signature.text) = <<HexHmac(app_secret, body)>>

\* MessageQueueMiddleware._extract_phone_and_message: <<phone, message_text>>,
\* or <<None, None>> (here NoMsg) when the payload carries no message
_extract_phone_and_message(payload) ==
    IF payload.msg = NoMsg THEN <<NoMsg, NoMsg>>
    ELSE <<payload.from, payload.msg>>

(***************************************************************************)
(* Starlette's middleware stack as app/main.py builds it: add_middleware   *)
(* inserts at the head of user_middleware, and the head is the outermost   *)
(* layer, the first to see a request.                                      *)
(***************************************************************************)
add_middleware(stack, m) == <<m>> \o stack

user_middleware ==
    LET s0 == <<>>
        s1 == IF USER_QUEUE_ENABLED THEN add_middleware(s0, "MessageQueueMiddleware") ELSE s0
        s2 == IF RATE_LIMIT_ENABLED THEN add_middleware(s1, "RateLimitMiddleware") ELSE s1
    IN  add_middleware(s2, "CORSMiddleware")

\* CORSMiddleware passes a request without an Origin header straight through
Stages ==
    SelectSeq(user_middleware, LAMBDA m : m # "CORSMiddleware") \o <<"receive">>

StageIndex(name) == CHOOSE i \in 1..Len(Stages) : Stages[i] = name

\* call_next: the layer below `name`
call_next(name) == Stages[StageIndex(name) + 1]

(***************************************************************************)
(* InMemoryRateLimiter.is_allowed: the body under self._lock has no        *)
(* suspension point, so one call is one step.                              *)
(***************************************************************************)
Trim(ts, t) == SelectSeq(ts, LAMBDA x : x > t - WindowSeconds)

is_allowed_OffByOne(reqmap, identifier, t) ==
    LET kept == Trim(reqmap[identifier], t)
        current_count == Len(kept)
    IN  IF current_count > requests_per_minute
        THEN [allowed |-> FALSE, remaining |-> 0,
              requests |-> [reqmap EXCEPT ![identifier] = kept]]
        ELSE [allowed |-> TRUE, remaining |-> requests_per_minute - current_count - 1,
              requests |-> [reqmap EXCEPT ![identifier] = Append(kept, t)]]

is_allowed(reqmap, identifier, t) ==
    LET kept == Trim(reqmap[identifier], t)
        current_count == Len(kept)
    IN  IF current_count >= requests_per_minute
        THEN [allowed |-> FALSE, remaining |-> 0,
              requests |-> [reqmap EXCEPT ![identifier] = kept]]
        ELSE [allowed |-> TRUE, remaining |-> requests_per_minute - current_count - 1,
              requests |-> [reqmap EXCEPT ![identifier] = Append(kept, t)]]

(***************************************************************************)
(* UserQueueManager.append_message, command by command.                    *)
(***************************************************************************)
\* current_size >= self.max_size
QueueFull_Off(current_size) == current_size > max_size

QueueFull(current_size) == current_size >= max_size

\* redis RPUSH: the list after the push; its length is the reply
RPush(q, m) == Append(q, m)

(***************************************************************************)
(* Requests.                                                               *)
(***************************************************************************)
\* the X-Hub-Signature-256 header of a delivery that is not correctly signed:
\* absent, or carrying a digest made with another key
BadSigForms == {"missing", "bad"}

Payload(r) == [from |-> r.phone, msg |-> r.msg, type |-> "text"]

\* the header the delivery carries
SigHeader(r, form) ==
    IF r.signed THEN Header("sha256=", HexHmac(APP_SECRET, Payload(r)))
    ELSE IF form = "missing" THEN NoHeader
    ELSE Header("sha256=", HexHmac(OtherKey, Payload(r)))

\* settings.WHATSAPP_APP_SECRET
WHATSAPP_APP_SECRET == IF secret THEN APP_SECRET ELSE ""

NewReq(phone, msg, signed) ==
    [pc |-> Stages[1], phone |-> phone, msg |-> msg, signed |-> signed,
     resp |-> "none", path |-> "none", ret |-> 0,
     counted |-> FALSE, validated |-> FALSE, enqErr |-> FALSE, inline |-> 0]

ReqIds == 1..Len(reqs)
JobIds == 1..Len(arq)

\* the AI-processing passes in flight for a phone: running jobs and inline calls
JobPasses(p) ==
    {j \in JobIds : arq[j].st = "running" /\ arq[j].payload.msg # NoMsg
                    /\ arq[j].payload.from = p}
InlinePasses(p) ==
    {i \in ReqIds : reqs[i].pc = "inline" /\ reqs[i].msg # NoMsg /\ reqs[i].phone = p}
ActivePasses(p) == Cardinality(JobPasses(p)) + Cardinality(InlinePasses(p))

Init ==
    /\ lock = [p \in Phones |-> FALSE]
    /\ queue = [p \in Phones |-> <<>>]
    /\ qttl = [p \in Phones |-> FALSE]
    /\ reqs = <<>>
    /\ arq = <<>>
    /\ secret \in BOOLEAN
    /\ requests = [i \in Idents |-> <<>>]
    /\ now = 0
    /\ rlog = <<>>
    /\ users = {}
    /\ convs = {}
    /\ msgs = {}
    /\ passes = <<>>
    /\ sent = <<>>
    /\ calls = <<>>
    /\ broadcasts = <<>>
    /\ tasks = <<>>

\* A POST /webhook delivery reaches the application.  Phones are
\* interchangeable, so the first phone to write is called p1; a payload without
\* a message names no phone.
Arrive(n, phone, hasMsg, signed) ==
    /\ Len(reqs) < n
    /\ ~hasMsg => phone = "p1"
    /\ phone = "p2" => \E i \in ReqIds : reqs[i].phone = "p1" /\ reqs[i].msg # NoMsg
    /\ reqs' = Append(reqs, NewReq(phone,
                    IF hasMsg THEN TextNames[Len(reqs) + 1] ELSE NoMsg, signed))
    /\ UNCHANGED <<castVars, pipeVars, redisVars, arq, secret, rlVars>>

(***************************************************************************)
(* RateLimitMiddleware.dispatch                                            *)
(***************************************************************************)
RateLimitDispatch(i) ==
    LET r == reqs[i]
        res == is_allowed(requests, WebhookIP, now)
    IN  /\ r.pc = "RateLimitMiddleware"
        /\ requests' = res.requests
        /\ IF ~res.allowed
           THEN reqs' = [reqs EXCEPT ![i] = [r EXCEPT !.pc = "done", !.resp = "rate_limited"]]
           ELSE reqs' = [reqs EXCEPT ![i] =
                            [r EXCEPT !.pc = call_next("RateLimitMiddleware"),
                                      !.counted = TRUE]]
        /\ UNCHANGED <<castVars, pipeVars, redisVars, arq, secret, now, rlog>>

(***************************************************************************)
(* MessageQueueMiddleware.dispatch, one step per Redis command.  `ok` is   *)
(* whether the command reached Redis; the manager catches the error and    *)
(* fails open.                                                             *)
(***************************************************************************)
\* the gate's answer once append_message returned `ret`
GateAnswer(r, ret) ==
    IF r.path = "busy" /\ ret = -1
    THEN [r EXCEPT !.pc = "done", !.resp = "queue_full", !.ret = ret]
    ELSE [r EXCEPT !.pc = "done", !.resp = "queued", !.ret = ret]

\* extraction, then is_user_processing (EXISTS)
GateEnter(i, ok) ==
    LET r == reqs[i]
        ex == _extract_phone_and_message(Payload(r))
        is_processing == ok /\ lock[r.phone]
    IN  /\ r.pc = "MessageQueueMiddleware"
        /\ reqs' = [reqs EXCEPT ![i] =
              IF ex[1] = NoMsg \/ ex[2] = NoMsg
              THEN [r EXCEPT !.pc = call_next("MessageQueueMiddleware"), !.path = "through"]
              ELSE IF is_processing
              THEN [r EXCEPT !.pc = "append_llen", !.path = "busy"]
              ELSE [r EXCEPT !.pc = "mark"]]
        /\ UNCHANGED <<castVars, pipeVars, redisVars, arq, secret, rlVars>>

\* mark_user_processing (SET NX EX)
GateMark(i, ok) ==
    LET r == reqs[i]
        locked == ~ok \/ ~lock[r.phone]
    IN  /\ r.pc = "mark"
        /\ lock' = IF ok THEN [lock EXCEPT ![r.phone] = TRUE] ELSE lock
        /\ reqs' = [reqs EXCEPT ![i] =
              IF locked
              THEN [r EXCEPT !.pc = call_next("MessageQueueMiddleware"), !.path = "locked"]
              ELSE [r EXCEPT !.pc = "append_llen", !.path = "race"]]
        /\ UNCHANGED <<castVars, pipeVars, queue, qttl, arq, secret, rlVars>>

\* append_message: LLEN and the capacity check
AppendLLen(i, ok) ==
    LET r == reqs[i]
    IN  /\ r.pc = "append_llen"
        /\ reqs' = [reqs EXCEPT ![i] =
              IF ~ok THEN GateAnswer(r, 0)
              ELSE IF QueueFull(Len(queue[r.phone])) THEN GateAnswer(r, -1)
              ELSE [r EXCEPT !.pc = "append_rpush"]]
        /\ UNCHANGED <<castVars, pipeVars, redisVars, arq, secret, rlVars>>

\* append_message: RPUSH
AppendRPush(i, ok) ==
    LET r == reqs[i]
        q == RPush(queue[r.phone], r.msg)
    IN  /\ r.pc = "append_rpush"
        /\ IF ok
           THEN /\ queue' = [queue EXCEPT ![r.phone] = q]
                /\ reqs' = [reqs EXCEPT ![i] = [r EXCEPT !.pc = "append_expire", !.ret = Len(q)]]
           ELSE /\ queue' = queue
                /\ reqs' = [reqs EXCEPT ![i] = GateAnswer(r, 0)]
        /\ UNCHANGED <<castVars, pipeVars, lock, qttl, arq, secret, rlVars>>

\* append_message: EXPIRE, then the return
AppendExpire(i, ok) ==
    LET r == reqs[i]
    IN  /\ r.pc = "append_expire"
        /\ IF ok
           THEN /\ qttl' = [qttl EXCEPT ![r.phone] = queue[r.phone] # <<>>]
                /\ reqs' = [reqs EXCEPT ![i] = GateAnswer(r, r.ret)]
           ELSE /\ qttl' = qttl
                /\ reqs' = [reqs EXCEPT ![i] = GateAnswer(r, 0)]
        /\ UNCHANGED <<castVars, pipeVars, lock, queue, arq, secret, rlVars>>

(***************************************************************************)
(* The route POST /webhook (receive): signature, schema, then enqueue or   *)
(* the synchronous fallback.  `enq_ok` is whether get_arq_redis and        *)
(* enqueue_job succeeded.                                                  *)
(***************************************************************************)
NewJob(i, r) == [id |-> i, payload |-> Payload(r), st |-> "queued"]

\* the statuses handle_incoming_webhook can return for a payload
Outcomes(msg) == IF msg = NoMsg THEN {"skipped"} ELSE {"success", "limited", "error"}

\* what the route does once the payload is validated
Dispatch_Both(i, r, enq_ok) ==
    IF enq_ok
    THEN /\ arq' = Append(arq, NewJob(i, r))
         /\ reqs' = [reqs EXCEPT ![i] = [r EXCEPT !.pc = "inline", !.inline = r.inline + 1]]
    ELSE /\ arq' = arq
         /\ reqs' = [reqs EXCEPT ![i] =
                [r EXCEPT !.pc = "inline", !.enqErr = TRUE, !.inline = r.inline + 1]]

Dispatch(i, r, enq_ok) ==
    IF enq_ok
    THEN /\ arq' = Append(arq, NewJob(i, r))
         /\ reqs' = [reqs EXCEPT ![i] = [r EXCEPT !.pc = "done", !.resp = "ok"]]
    ELSE /\ arq' = arq
         /\ reqs' = [reqs EXCEPT ![i] =
                [r EXCEPT !.pc = "inline", !.enqErr = TRUE, !.inline = r.inline + 1]]

Receive(i, form, schemaOk, enq_ok) ==
    LET r == reqs[i]
        x_hub_signature_256 == SigHeader(r, form)
    IN  /\ r.pc = "receive"
        /\ IF WHATSAPP_APP_SECRET # "" /\ ~x_hub_signature_256.present
           THEN /\ reqs' = [reqs EXCEPT ![i] = [r EXCEPT !.pc = "done", !.resp = "401"]]
                /\ arq' = arq
           ELSE IF WHATSAPP_APP_SECRET # ""
                   /\ ~verify_webhook_signature(Payload(r), x_hub_signature_256,
                                                WHATSAPP_APP_SECRET)
           THEN /\ reqs' = [reqs EXCEPT ![i] = [r EXCEPT !.pc = "done", !.resp = "401"]]
                /\ arq' = arq
           ELSE IF ~schemaOk
           THEN /\ reqs' = [reqs EXCEPT ![i] = [r EXCEPT !.pc = "done", !.resp = "400"]]
                /\ arq' = arq
           ELSE Dispatch(i, [r EXCEPT !.validated = TRUE], enq_ok)
        /\ UNCHANGED <<castVars, pipeVars, redisVars, secret, rlVars>>

\* the inline handle_incoming_webhook returns; the route answers {status: ok}.
\* The pipeline's exit touches neither the lock nor the pending queue.
InlineEnd(i) ==
    LET r == reqs[i]
    IN  /\ r.pc = "inline"
        /\ reqs' = [reqs EXCEPT ![i] = [r EXCEPT !.pc = "done", !.resp = "ok"]]
        /\ UNCHANGED <<castVars, pipeVars, redisVars, arq, secret, rlVars>>

(***************************************************************************)
(* The ARQ worker: process_webhook_message runs handle_incoming_webhook.   *)
(***************************************************************************)
Running == {j \in JobIds : arq[j].st = "running"}

JobStart(j) ==
    /\ arq[j].st = "queued"
    /\ Cardinality(Running) < max_jobs
    /\ arq' = [arq EXCEPT ![j].st = "running"]
    /\ UNCHANGED <<castVars, pipeVars, redisVars, reqs, secret, rlVars>>

\* handle_incoming_webhook returns `status`; its exit touches neither the lock
\* nor the pending queue, and enqueues nothing
JobEnd(j, status) ==
    /\ arq[j].st = "running"
    /\ status \in Outcomes(arq[j].payload.msg)
    /\ arq' = [arq EXCEPT ![j].st = "done"]
    /\ UNCHANGED <<castVars, pipeVars, redisVars, reqs, secret, rlVars>>

(***************************************************************************)
(* Redis expiry: the lock key (SET ... EX ttl) and the queue key (EXPIRE). *)
(***************************************************************************)
ExpireLock(p) ==
    /\ lock[p]
    /\ lock' = [lock EXCEPT ![p] = FALSE]
    /\ UNCHANGED <<castVars, pipeVars, queue, qttl, reqs, arq, secret, rlVars>>

ExpireQueue(p) ==
    /\ queue[p] # <<>>
    /\ qttl[p]
    /\ queue' = [queue EXCEPT ![p] = <<>>]
    /\ qttl' = [qttl EXCEPT ![p] = FALSE]
    /\ UNCHANGED <<castVars, pipeVars, lock, reqs, arq, secret, rlVars>>

\* every step of the application, the worker and Redis
Step ==
    \/ \E i \in ReqIds : RateLimitDispatch(i)
    \/ \E i \in ReqIds, ok \in BOOLEAN : GateEnter(i, ok)
    \/ \E i \in ReqIds, ok \in BOOLEAN : GateMark(i, ok)
    \/ \E i \in ReqIds, ok \in BOOLEAN : AppendLLen(i, ok)
    \/ \E i \in ReqIds, ok \in BOOLEAN : AppendRPush(i, ok)
    \/ \E i \in ReqIds, ok \in BOOLEAN : AppendExpire(i, ok)
    \/ \E i \in ReqIds, form \in BadSigForms, schemaOk \in BOOLEAN, ok \in BOOLEAN :
          Receive(i, form, schemaOk, ok)
    \/ \E i \in ReqIds : InlineEnd(i)
    \/ \E j \in JobIds : JobStart(j)
    \/ \E j \in JobIds, st \in {"success", "limited", "error", "skipped"} : JobEnd(j, st)
    \/ \E p \in Phones : ExpireLock(p)
    \/ \E p \in Phones : ExpireQueue(p)

Next ==
    \/ \E p \in Phones, hasMsg \in BOOLEAN, signed \in BOOLEAN :
          Arrive(MaxReqs, p, hasMsg, signed)
    \/ Step

Spec == Init /\ [][Next]_vars

\* the same system with fewer deliveries
NextSmall ==
    \/ \E p \in Phones, hasMsg \in BOOLEAN, signed \in BOOLEAN :
          Arrive(MaxSmallReqs, p, hasMsg, signed)
    \/ Step

SpecSmall == Init /\ [][NextSmall]_vars

(***************************************************************************)
(* SpecSeq: append_message called sequentially for one phone, Redis        *)
(* reachable, no key expiring between the calls.  A call is the busy path  *)
(* of the gate from its LLEN on, so the steps are the gate's own.          *)
(***************************************************************************)
SeqPhone == "p1"

InitSeq ==
    /\ Init
    /\ secret = FALSE

SeqCall(m) ==
    /\ Len(reqs) < MaxCalls
    /\ \A i \in ReqIds : reqs[i].pc = "done"
    /\ reqs' = Append(reqs, [NewReq(SeqPhone, m, TRUE) EXCEPT
                                !.pc = "append_llen", !.path = "busy"])
    /\ UNCHANGED <<castVars, pipeVars, redisVars, arq, secret, rlVars>>

NextSeq ==
    \/ \E m \in Texts : SeqCall(m)
    \/ \E i \in ReqIds : AppendLLen(i, TRUE)
    \/ \E i \in ReqIds : AppendRPush(i, TRUE)
    \/ \E i \in ReqIds : AppendExpire(i, TRUE)

SpecSeq == InitSeq /\ [][NextSeq]_vars

(***************************************************************************)
(* SpecRL: is_allowed called for several identifiers while the clock runs. *)
(***************************************************************************)
TickSteps == {20, 40}

InitRL ==
    /\ Init
    /\ secret = FALSE

RLCall(identifier) ==
    LET res == is_allowed(requests, identifier, now)
    IN  /\ Len(rlog) < MaxRLCalls
        /\ requests' = res.requests
        /\ rlog' = Append(rlog, [id |-> identifier, t |-> now,
                                 allowed |-> res.allowed, remaining |-> res.remaining])
        /\ UNCHANGED <<castVars, pipeVars, redisVars, reqs, arq, secret, now>>

Tick(d) ==
    /\ now + d <= MaxTime
    /\ now' = now + d
    /\ UNCHANGED <<castVars, pipeVars, redisVars, reqs, arq, secret, requests, rlog>>

NextRL ==
    \/ \E identifier \in Idents : RLCall(identifier)
    \/ \E d \in TickSteps : Tick(d)

SpecRL == InitRL /\ [][NextRL]_vars

(***************************************************************************)
(* SpecPipe: handle_incoming_webhook (app/services/whatsapp_service.py) as *)
(* process_webhook_message runs it: several passes at once over one        *)
(* database, one step per statement that reaches the database, the AI or   *)
(* the messaging platform, while the admin routes change rows.  `ok` is    *)
(* whether the statement succeeded; a failure raises.                      *)
(***************************************************************************)
\* the shapes of a webhook payload: a text message, a delivery-status event
\* (no value.messages), a text message without its text object, no entry
PayloadKinds == {"text", "status", "nobody", "empty"}

\* what generate_reply returns, as the pieces of its text: plain text, a
\* caption with the path of a generated local image, a bare remote image URL,
\* a marker with nothing after it
Replies ==
    { <<"hello">>,
      <<"city", "IMAGE_URL:", "images/gen.jpg">>,
      <<"IMAGE_URL:", "http://img/x.png">>,
      <<"city", "IMAGE_URL:">> }

\* "IMAGE_URL:" in reply_text
HasImageUrl(reply_text) == \E k \in 1..Len(reply_text) : reply_text[k] = "IMAGE_URL:"

\* reply_text.split("IMAGE_URL:"): parts[0] is the text before the first marker
MarkerAt(reply_text) ==
    CHOOSE k \in 1..Len(reply_text) :
        /\ reply_text[k] = "IMAGE_URL:"
        /\ \A j \in 1..(k - 1) : reply_text[j] # "IMAGE_URL:"

\* parts[0].strip()
caption_text(reply_text) == SubSeq(reply_text, 1, MarkerAt(reply_text) - 1)

\* parts[1].strip().split(): the words after the marker (IndexError when none)
PathWords(reply_text) == SubSeq(reply_text, MarkerAt(reply_text) + 1, Len(reply_text))

\* whatsapp_payload
NoPayload == [type |-> "none", message |-> <<>>, media |-> ""]
TextPayload(message) == [type |-> "text", message |-> message, media |-> ""]
\* "caption": caption_text if caption_text else None
ImagePayload(media, caption) == [type |-> "image", message |-> caption, media |-> media]

LimitText == <<"You've reached your daily limit.">>
SorryText == <<"Sorry, I encountered an error processing your message.">>
ImageErrorText == <<"[Error sending generated image]">>

\* _send_whatsapp_response(to, payload): the calls made to the messaging
\* platform's send endpoint
_send_whatsapp_response_Split(i, to, payload) ==
    IF payload.type = "text"
    THEN <<[pass |-> i, to |-> to, type |-> "text", body |-> payload.message, media |-> ""]>>
    ELSE IF payload.type = "image"
    THEN <<[pass |-> i, to |-> to, type |-> "image", body |-> <<>>, media |-> payload.media],
           [pass |-> i, to |-> to, type |-> "text", body |-> payload.message, media |-> ""]>>
    ELSE <<>>

_send_whatsapp_response(i, to, payload) ==
    IF payload.type = "text"
    THEN <<[pass |-> i, to |-> to, type |-> "text", body |-> payload.message, media |-> ""]>>
    ELSE IF payload.type = "image"
    THEN <<[pass |-> i, to |-> to, type |-> "image", body |-> payload.message,
            media |-> payload.media]>>
    ELSE <<>>

PassIds == 1..Len(passes)

NewPass(ver, kind, phone) ==
    [ver |-> ver, pc |-> "parse", kind |-> kind, phone |-> phone, to_phone |-> NoMsg,
     user |-> 0, is_active |-> TRUE, conv |-> 0,
     whatsapp_payload |-> NoPayload, reply |-> <<>>,
     status |-> "success", failed |-> FALSE, lostRace |-> FALSE,
     raised |-> FALSE, job |-> "running",
     open |-> FALSE, pusers |-> {}, pconvs |-> {}, pmsgs |-> {}]

\* a job starts handle_incoming_webhook on a payload
PipeStart(kind, phone) ==
    /\ Len(passes) < MaxPasses
    /\ kind \in {"status", "empty"} => phone = "p1"
    /\ passes' = Append(passes, NewPass("v1", kind, phone))
    /\ UNCHANGED <<castVars, httpVars, dbVars, sent, calls>>

\* an exception inside the body: the except clause of lines 207-215
Except(p) ==
    [p EXCEPT !.pc = "send", !.status = "error", !.failed = TRUE,
              !.whatsapp_payload = TextPayload(SorryText)]

UserRows(phone) == {u \in users : u.phone = phone}
ActiveConvs(uid) == {c \in convs : c.user = uid /\ c.status = "active"}
MaxId(rows) == IF rows = {} THEN 0 ELSE CHOOSE n \in {r.id : r \in rows} :
                                           \A r \in rows : r.id <= n

\* lines 41-96: the message is taken out of the payload
PipeParse(i) ==
    LET p == passes[i]
    IN  /\ p.ver = "v1" /\ p.pc = "parse"
        /\ passes' = [passes EXCEPT ![i] =
              CASE p.kind = "empty"  -> Except(p)
                [] p.kind = "status" -> [p EXCEPT !.pc = "returned", !.status = "skipped"]
                [] p.kind = "nobody" -> Except([p EXCEPT !.to_phone = p.phone])
                [] OTHER             -> [p EXCEPT !.pc = "session", !.to_phone = p.phone]]
        /\ UNCHANGED <<castVars, httpVars, dbVars, sent, calls>>

\* lines 99-100: the session is obtained
PipeSession(i, ok) ==
    LET p == passes[i]
    IN  /\ p.ver = "v1" /\ p.pc = "session"
        /\ passes' = [passes EXCEPT ![i] =
              IF ok THEN [p EXCEPT !.pc = "sel_user", !.open = TRUE] ELSE Except(p)]
        /\ UNCHANGED <<castVars, httpVars, dbVars, sent, calls>>

\* _get_or_create_user: the SELECT
PipeSelUser(i, ok) ==
    LET p == passes[i]
        found == UserRows(p.phone)
    IN  /\ p.ver = "v1" /\ p.pc = "sel_user"
        /\ passes' = [passes EXCEPT ![i] =
              IF ~ok THEN Except([p EXCEPT !.open = FALSE])
              ELSE IF found # {}
              THEN LET u == CHOOSE u \in found : TRUE
                   IN  [p EXCEPT !.pc = "check", !.user = u.id, !.is_active = u.is_active]
              ELSE [p EXCEPT !.pc = "ins_user"]]
        /\ UNCHANGED <<castVars, httpVars, dbVars, sent, calls>>

\* _get_or_create_user: session.add(user); session.commit().  User.phone is
\* unique: the INSERT of a phone that has a row raises IntegrityError.
PipeInsUser(i, ok) ==
    LET p == passes[i]
        id == MaxId(users) + 1
    IN  /\ p.ver = "v1" /\ p.pc = "ins_user"
        /\ IF ~ok
           THEN /\ passes' = [passes EXCEPT ![i] = Except([p EXCEPT !.open = FALSE])]
                /\ users' = users
           ELSE IF UserRows(p.phone) # {}
           THEN /\ passes' = [passes EXCEPT ![i] =
                       Except([p EXCEPT !.open = FALSE, !.lostRace = TRUE])]
                /\ users' = users
           ELSE /\ passes' = [passes EXCEPT ![i] =
                       [p EXCEPT !.pc = "check", !.user = id, !.is_active = TRUE]]
                /\ users' = users \cup {[id |-> id, phone |-> p.phone, is_active |-> TRUE]}
        /\ UNCHANGED <<castVars, httpVars, convs, msgs, sent, calls>>

\* can_user_send_message(user): user.is_active
PipeCheck(i) ==
    LET p == passes[i]
    IN  /\ p.ver = "v1" /\ p.pc = "check"
        /\ passes' = [passes EXCEPT ![i] =
              IF ~p.is_active
              THEN [p EXCEPT !.pc = "send", !.open = FALSE, !.status = "limited",
                             !.whatsapp_payload = TextPayload(LimitText)]
              ELSE [p EXCEPT !.pc = "sel_conv"]]
        /\ UNCHANGED <<castVars, httpVars, dbVars, sent, calls>>

\* get_or_create_active_conversation: the SELECT ... ORDER BY created_at DESC
PipeSelConv(i, ok) ==
    LET p == passes[i]
        found == ActiveConvs(p.user)
    IN  /\ p.ver = "v1" /\ p.pc = "sel_conv"
        /\ passes' = [passes EXCEPT ![i] =
              IF ~ok THEN Except([p EXCEPT !.open = FALSE])
              ELSE IF found # {} THEN [p EXCEPT !.pc = "save_user", !.conv = MaxId(found)]
              ELSE [p EXCEPT !.pc = "ins_conv"]]
        /\ UNCHANGED <<castVars, httpVars, dbVars, sent, calls>>

\* get_or_create_active_conversation: session.add(conversation); commit
PipeInsConv(i, ok) ==
    LET p == passes[i]
        id == MaxId(convs) + 1
    IN  /\ p.ver = "v1" /\ p.pc = "ins_conv"
        /\ IF ~ok
           THEN /\ passes' = [passes EXCEPT ![i] = Except([p EXCEPT !.open = FALSE])]
                /\ convs' = convs
           ELSE /\ passes' = [passes EXCEPT ![i] = [p EXCEPT !.pc = "save_user", !.conv = id]]
                /\ convs' = convs \cup {[id |-> id, user |-> p.user, status |-> "active"]}
        /\ UNCHANGED <<castVars, httpVars, users, msgs, sent, calls>>

\* lines 118-124: the user's message is added and committed
PipeSaveUser(i, ok) ==
    LET p == passes[i]
    IN  /\ p.ver = "v1" /\ p.pc = "save_user"
        /\ IF ~ok
           THEN /\ passes' = [passes EXCEPT ![i] = Except([p EXCEPT !.open = FALSE])]
                /\ msgs' = msgs
           ELSE /\ passes' = [passes EXCEPT ![i] = [p EXCEPT !.pc = "reply"]]
                /\ msgs' = msgs \cup {[pass |-> i, conv |-> p.conv, sender |-> "user"]}
        /\ UNCHANGED <<castVars, httpVars, users, convs, sent, calls>>

\* lines 126-173 and 182-191: history, generate_reply (which returns a text
\* whatever happens), and the payload built from the reply
PipeReply(i, ok, reply_text) ==
    LET p == passes[i]
        q == [p EXCEPT !.reply = reply_text]
    IN  /\ p.ver = "v1" /\ p.pc = "reply"
        /\ passes' = [passes EXCEPT ![i] =
              IF ~ok THEN Except([p EXCEPT !.open = FALSE])
              ELSE IF ~HasImageUrl(reply_text)
              THEN [q EXCEPT !.pc = "save_bot", !.whatsapp_payload = TextPayload(reply_text)]
              ELSE IF PathWords(reply_text) = <<>>
              THEN Except([q EXCEPT !.open = FALSE])
              ELSE IF PathWords(reply_text)[1] = "http://img/x.png"
              THEN [q EXCEPT !.pc = "save_bot",
                             !.whatsapp_payload =
                                 ImagePayload(PathWords(reply_text)[1], caption_text(reply_text))]
              ELSE [q EXCEPT !.pc = "upload"]]
        /\ UNCHANGED <<castVars, httpVars, dbVars, sent, calls>>

\* lines 141-161: upload_media(gen_image_path); its failure is caught here
PipeUpload(i, ok) ==
    LET p == passes[i]
    IN  /\ p.ver = "v1" /\ p.pc = "upload"
        /\ passes' = [passes EXCEPT ![i] =
              IF ok
              THEN [p EXCEPT !.pc = "save_bot",
                             !.whatsapp_payload = ImagePayload("media_id", caption_text(p.reply))]
              ELSE [p EXCEPT !.pc = "save_bot", !.status = "error", !.failed = TRUE,
                             !.whatsapp_payload = TextPayload(ImageErrorText)]]
        /\ UNCHANGED <<castVars, httpVars, dbVars, sent, calls>>

\* lines 175-205: the bot's message is added and committed, usage registered,
\* the session closed
PipeSaveBot(i, ok) ==
    LET p == passes[i]
    IN  /\ p.ver = "v1" /\ p.pc = "save_bot"
        /\ IF ~ok
           THEN /\ passes' = [passes EXCEPT ![i] = Except([p EXCEPT !.open = FALSE])]
                /\ msgs' = msgs
           ELSE /\ passes' = [passes EXCEPT ![i] = [p EXCEPT !.pc = "send", !.open = FALSE]]
                /\ msgs' = msgs \cup {[pass |-> i, conv |-> p.conv, sender |-> "bot"]}
        /\ UNCHANGED <<castVars, httpVars, users, convs, sent, calls>>

\* lines 217-221: the single send, then the return
PipeSend(i) ==
    LET p == passes[i]
    IN  /\ p.ver = "v1" /\ p.pc = "send"
        /\ sent' = IF p.whatsapp_payload.type # "none" /\ p.to_phone # NoMsg
                   THEN sent \o _send_whatsapp_response(i, p.to_phone, p.whatsapp_payload)
                   ELSE sent
        /\ passes' = [passes EXCEPT ![i] = [p EXCEPT !.pc = "returned"]]
        /\ UNCHANGED <<castVars, httpVars, dbVars, calls>>

\* process_webhook_message: the result is returned, an exception re-raised
process_webhook_message(i) ==
    LET p == passes[i]
    IN  /\ p.ver = "v1" /\ p.pc \in {"returned", "raised"} /\ p.job = "running"
        /\ passes' = [passes EXCEPT ![i] =
              [p EXCEPT !.job = IF p.raised THEN "failed" ELSE "success"]]
        /\ UNCHANGED <<castVars, httpVars, dbVars, sent, calls>>

\* PATCH /admin/users/{user_id}/status
toggle_user_status(uid, is_active) ==
    /\ \E u \in users : u.id = uid /\ u.is_active # is_active
    /\ users' = {[u EXCEPT !.is_active = IF u.id = uid THEN is_active ELSE @] : u \in users}
    /\ UNCHANGED <<castVars, httpVars, convs, msgs, passes, sent, calls>>

\* PATCH /admin/conversations/{conversation_id}/close
close_conversation(cid) ==
    /\ \E c \in convs : c.id = cid /\ c.status = "active"
    /\ convs' = {[c EXCEPT !.status = IF c.id = cid THEN "closed" ELSE @] : c \in convs}
    /\ UNCHANGED <<castVars, httpVars, users, msgs, passes, sent, calls>>

InitPipe ==
    /\ Init
    /\ secret = FALSE

NextPipe ==
    \/ \E kind \in PayloadKinds, phone \in Phones : PipeStart(kind, phone)
    \/ \E i \in PassIds : PipeParse(i)
    \/ \E i \in PassIds, ok \in BOOLEAN : PipeSession(i, ok)
    \/ \E i \in PassIds, ok \in BOOLEAN : PipeSelUser(i, ok)
    \/ \E i \in PassIds, ok \in BOOLEAN : PipeInsUser(i, ok)
    \/ \E i \in PassIds : PipeCheck(i)
    \/ \E i \in PassIds, ok \in BOOLEAN : PipeSelConv(i, ok)
    \/ \E i \in PassIds, ok \in BOOLEAN : PipeInsConv(i, ok)
    \/ \E i \in PassIds, ok \in BOOLEAN : PipeSaveUser(i, ok)
    \/ \E i \in PassIds, ok \in BOOLEAN, reply_text \in Replies : PipeReply(i, ok, reply_text)
    \/ \E i \in PassIds, ok \in BOOLEAN : PipeUpload(i, ok)
    \/ \E i \in PassIds, ok \in BOOLEAN : PipeSaveBot(i, ok)
    \/ \E i \in PassIds : PipeSend(i)
    \/ \E i \in PassIds : process_webhook_message(i)
    \/ \E uid \in 1..MaxPasses, is_active \in BOOLEAN : toggle_user_status(uid, is_active)
    \/ \E cid \in 1..MaxPasses : close_conversation(cid)

SpecPipe == InitPipe /\ [][NextPipe]_vars

\* the same handler, one pass after the other: what a pass sends depends on its
\* own steps and on the rows it reads
SeqStart(kind, phone) ==
    /\ Len(passes) < MaxSendPasses
    /\ \A i \in PassIds : passes[i].job # "running"
    /\ passes' = Append(passes, NewPass("v1", kind, phone))
    /\ UNCHANGED <<castVars, httpVars, dbVars, sent, calls>>

NextSend ==
    \/ \E kind \in PayloadKinds, phone \in Phones : SeqStart(kind, phone)
    \/ \E i \in PassIds : PipeParse(i)
    \/ \E i \in PassIds, ok \in BOOLEAN : PipeSession(i, ok)
    \/ \E i \in PassIds, ok \in BOOLEAN : PipeSelUser(i, ok)
    \/ \E i \in PassIds, ok \in BOOLEAN : PipeInsUser(i, ok)
    \/ \E i \in PassIds : PipeCheck(i)
    \/ \E i \in PassIds, ok \in BOOLEAN : PipeSelConv(i, ok)
    \/ \E i \in PassIds, ok \in BOOLEAN : PipeInsConv(i, ok)
    \/ \E i \in PassIds, ok \in BOOLEAN : PipeSaveUser(i, ok)
    \/ \E i \in PassIds, ok \in BOOLEAN, reply_text \in Replies : PipeReply(i, ok, reply_text)
    \/ \E i \in PassIds, ok \in BOOLEAN : PipeUpload(i, ok)
    \/ \E i \in PassIds, ok \in BOOLEAN : PipeSaveBot(i, ok)
    \/ \E i \in PassIds : PipeSend(i)
    \/ \E i \in PassIds : process_webhook_message(i)
    \/ \E uid \in 1..MaxSendPasses, is_active \in BOOLEAN : toggle_user_status(uid, is_active)
    \/ \E cid \in 1..MaxSendPasses : close_conversation(cid)

SpecSend == InitPipe /\ [][NextSend]_vars

(***************************************************************************)
(* SpecV2: handle_incoming_webhook of app/services/whatsapp_service_v2.py  *)
(* inside the session scope of app/db/session.py (get_session).  Writes    *)
(* are flushed into the pass's open transaction (pusers, pconvs, pmsgs)    *)
(* and reach the tables when the transaction commits.  A flushed INSERT of *)
(* a phone that another open transaction has inserted waits for that       *)
(* transaction to end.  The passes are for one phone.                      *)
(***************************************************************************)
V2Start(kind) ==
    /\ Len(passes) < MaxV2Passes
    /\ passes' = Append(passes, NewPass("v2", kind, SeqPhone))
    /\ UNCHANGED <<castVars, httpVars, dbVars, sent, calls>>

\* the rows a pass sees: the committed ones and those of its own transaction
SeenUsers(p) == users \cup p.pusers
SeenConvs(p) == convs \cup p.pconvs

AllUsers == users \cup UNION {passes[i].pusers : i \in PassIds}
AllConvs == convs \cup UNION {passes[i].pconvs : i \in PassIds}

\* session.rollback()
Rollback(p) == [p EXCEPT !.pusers = {}, !.pconvs = {}, !.pmsgs = {}]

\* a WhatsAppBotError raised in the body: lines 109-116 will answer it
BotError(p) == [p EXCEPT !.pc = "bot_error", !.failed = TRUE]

\* lines 30-39: parse_webhook_payload (ParseError on KeyError/IndexError is not
\* caught by the handler), mark_message_read, and the scope is entered
V2Parse(i) ==
    LET p == passes[i]
    IN  /\ p.ver = "v2" /\ p.pc = "parse"
        /\ passes' = [passes EXCEPT ![i] =
              CASE p.kind = "empty"  -> [p EXCEPT !.pc = "raised", !.raised = TRUE,
                                                  !.failed = TRUE]
                [] p.kind = "status" -> [p EXCEPT !.pc = "returned", !.status = "skipped"]
                [] OTHER             -> [p EXCEPT !.pc = "sel_user", !.to_phone = p.phone,
                                                  !.open = TRUE]]
        /\ UNCHANGED <<castVars, httpVars, dbVars, sent, calls>>

\* get_or_create_user_conversation: the SELECT of the user
V2SelUser(i, ok) ==
    LET p == passes[i]
        found == {u \in SeenUsers(p) : u.phone = p.phone}
    IN  /\ p.ver = "v2" /\ p.pc = "sel_user"
        /\ passes' = [passes EXCEPT ![i] =
              IF ~ok THEN BotError(p)
              ELSE IF found # {}
              THEN LET u == CHOOSE u \in found : TRUE
                   IN  [p EXCEPT !.pc = "sel_conv", !.user = u.id, !.is_active = u.is_active]
              ELSE [p EXCEPT !.pc = "ins_user"]]
        /\ UNCHANGED <<castVars, httpVars, dbVars, sent, calls>>

\* get_or_create_user_conversation: session.add(user); flush; on IntegrityError
\* rollback and SELECT again
V2InsUser(i, ok) ==
    LET p == passes[i]
        id == MaxId(AllUsers) + 1
    IN  /\ p.ver = "v2" /\ p.pc = "ins_user"
        /\ \A j \in PassIds \ {i} : \A u \in passes[j].pusers : u.phone # p.phone
        /\ passes' = [passes EXCEPT ![i] =
              IF ~ok THEN BotError(p)
              ELSE IF UserRows(p.phone) # {}
              THEN LET u == CHOOSE u \in UserRows(p.phone) : TRUE
                   IN  [Rollback(p) EXCEPT !.pc = "sel_conv", !.user = u.id,
                                           !.is_active = u.is_active]
              ELSE [p EXCEPT !.pc = "sel_conv", !.user = id, !.is_active = TRUE,
                             !.pusers = {[id |-> id, phone |-> p.phone, is_active |-> TRUE]}]]
        /\ UNCHANGED <<castVars, httpVars, dbVars, sent, calls>>

\* get_or_create_user_conversation: the SELECT of the active conversation,
\* scalar_one_or_none (MultipleResultsFound when there are several)
V2SelConv(i, ok) ==
    LET p == passes[i]
        found == {c \in SeenConvs(p) : c.user = p.user /\ c.status = "active"}
    IN  /\ p.ver = "v2" /\ p.pc = "sel_conv"
        /\ passes' = [passes EXCEPT ![i] =
              IF ~ok \/ Cardinality(found) > 1 THEN BotError(p)
              ELSE IF found # {} THEN [p EXCEPT !.pc = "check", !.conv = MaxId(found)]
              ELSE [p EXCEPT !.pc = "ins_conv"]]
        /\ UNCHANGED <<castVars, httpVars, dbVars, sent, calls>>

\* get_or_create_user_conversation: session.add(conversation); flush
V2InsConv(i, ok) ==
    LET p == passes[i]
        id == MaxId(AllConvs) + 1
    IN  /\ p.ver = "v2" /\ p.pc = "ins_conv"
        /\ passes' = [passes EXCEPT ![i] =
              IF ~ok THEN BotError(p)
              ELSE [p EXCEPT !.pc = "check", !.conv = id,
                             !.pconvs = @ \cup {[id |-> id, user |-> p.user,
                                                 status |-> "active"]}]]
        /\ UNCHANGED <<castVars, httpVars, dbVars, sent, calls>>

\* lines 46-50 and 107-108: the rate-limit reply is sent, RateLimitExceeded
\* raised and caught
V2Check(i) ==
    LET p == passes[i]
    IN  /\ p.ver = "v2" /\ p.pc = "check"
        /\ IF ~p.is_active
           THEN /\ sent' = sent \o _send_whatsapp_response(i, p.phone, TextPayload(LimitText))
                /\ passes' = [passes EXCEPT ![i] =
                      [p EXCEPT !.pc = "scope_exit", !.status = "rate_limited"]]
           ELSE /\ sent' = sent
                /\ passes' = [passes EXCEPT ![i] = [p EXCEPT !.pc = "handle"]]
        /\ UNCHANGED <<castVars, httpVars, dbVars, calls>>

\* lines 52-56: get_conversation_context and handle_message
V2Handle(i, ok) ==
    LET p == passes[i]
    IN  /\ p.ver = "v2" /\ p.pc = "handle"
        /\ passes' = [passes EXCEPT ![i] =
              IF ok THEN [p EXCEPT !.pc = "save_user"] ELSE BotError(p)]
        /\ UNCHANGED <<castVars, httpVars, dbVars, sent, calls>>

\* lines 58-64: save_user_message (add, flush)
V2SaveUser(i, ok) ==
    LET p == passes[i]
    IN  /\ p.ver = "v2" /\ p.pc = "save_user"
        /\ passes' = [passes EXCEPT ![i] =
              IF ~ok THEN BotError(p)
              ELSE [p EXCEPT !.pc = "reply",
                             !.pmsgs = @ \cup {[pass |-> i, conv |-> p.conv,
                                                sender |-> "user"]}]]
        /\ UNCHANGED <<castVars, httpVars, dbVars, sent, calls>>

\* lines 66-76: the context is read again, the reply generated and its tool
\* output extracted; `valid` is validate_media_path of the extracted path
V2Reply(i, ok, reply_text, valid) ==
    LET p == passes[i]
        isImage == HasImageUrl(reply_text) /\ PathWords(reply_text) # <<>> /\ valid
    IN  /\ p.ver = "v2" /\ p.pc = "reply"
        /\ passes' = [passes EXCEPT ![i] =
              IF ~ok THEN BotError(p)
              ELSE IF isImage
              THEN [p EXCEPT !.pc = "upload", !.reply = reply_text]
              ELSE [p EXCEPT !.pc = "send", !.reply = reply_text,
                             !.whatsapp_payload = TextPayload(reply_text)]]
        /\ UNCHANGED <<castVars, httpVars, dbVars, sent, calls>>

\* lines 79-80: upload_media_to_whatsapp (MediaProcessingError on failure)
V2Upload(i, ok) ==
    LET p == passes[i]
    IN  /\ p.ver = "v2" /\ p.pc = "upload"
        /\ passes' = [passes EXCEPT ![i] =
              IF ~ok THEN BotError(p)
              ELSE [p EXCEPT !.pc = "send",
                             !.whatsapp_payload = ImagePayload("media_id", caption_text(p.reply))]]
        /\ UNCHANGED <<castVars, httpVars, dbVars, sent, calls>>

\* lines 81-87: send_whatsapp_image or send_whatsapp_text
V2Send(i) ==
    LET p == passes[i]
    IN  /\ p.ver = "v2" /\ p.pc = "send"
        /\ sent' = sent \o _send_whatsapp_response(i, p.phone, p.whatsapp_payload)
        /\ passes' = [passes EXCEPT ![i] = [p EXCEPT !.pc = "save_bot"]]
        /\ UNCHANGED <<castVars, httpVars, dbVars, calls>>

\* lines 89-95: save_bot_message (add, flush)
V2SaveBot(i, ok) ==
    LET p == passes[i]
    IN  /\ p.ver = "v2" /\ p.pc = "save_bot"
        /\ passes' = [passes EXCEPT ![i] =
              IF ~ok THEN BotError(p)
              ELSE [p EXCEPT !.pc = "commit",
                             !.pmsgs = @ \cup {[pass |-> i, conv |-> p.conv,
                                                sender |-> "assistant"]}]]
        /\ UNCHANGED <<castVars, httpVars, dbVars, sent, calls>>

\* lines 97-105 and 117-119: register_usage, session.commit(), the result; a
\* failing commit is an unexpected exception, answered by the last clause
V2Commit(i, ok) ==
    LET p == passes[i]
    IN  /\ p.ver = "v2" /\ p.pc = "commit"
        /\ IF ok
           THEN /\ users' = users \cup p.pusers
                /\ convs' = convs \cup p.pconvs
                /\ msgs' = msgs \cup p.pmsgs
                /\ passes' = [passes EXCEPT ![i] =
                      [Rollback(p) EXCEPT !.pc = "scope_exit", !.status = "success"]]
           ELSE /\ UNCHANGED dbVars
                /\ passes' = [passes EXCEPT ![i] =
                      [Rollback(p) EXCEPT !.pc = "scope_exit", !.status = "error",
                                          !.failed = TRUE]]
        /\ UNCHANGED <<castVars, httpVars, sent, calls>>

\* lines 109-116: a WhatsAppBotError is answered with an apology
V2BotError(i) ==
    LET p == passes[i]
    IN  /\ p.ver = "v2" /\ p.pc = "bot_error"
        /\ sent' = sent \o _send_whatsapp_response(i, p.phone, TextPayload(SorryText))
        /\ passes' = [passes EXCEPT ![i] = [p EXCEPT !.pc = "scope_exit", !.status = "error"]]
        /\ UNCHANGED <<castVars, httpVars, dbVars, calls>>

\* get_session: the body of the `async with` was left by a return, so the
\* generator goes on after its yield: commit; on an exception rollback and
\* raise; close in every case
get_session(i, ok) ==
    LET p == passes[i]
    IN  /\ p.ver = "v2" /\ p.pc = "scope_exit"
        /\ IF ok
           THEN /\ users' = users \cup p.pusers
                /\ convs' = convs \cup p.pconvs
                /\ msgs' = msgs \cup p.pmsgs
                /\ passes' = [passes EXCEPT ![i] =
                      [Rollback(p) EXCEPT !.pc = "returned", !.open = FALSE]]
           ELSE /\ UNCHANGED dbVars
                /\ passes' = [passes EXCEPT ![i] =
                      [Rollback(p) EXCEPT !.pc = "raised", !.raised = TRUE,
                                          !.failed = TRUE, !.open = FALSE]]
        /\ UNCHANGED <<castVars, httpVars, sent, calls>>

NextV2 ==
    \/ \E kind \in PayloadKinds : V2Start(kind)
    \/ \E i \in PassIds : V2Parse(i)
    \/ \E i \in PassIds, ok \in BOOLEAN : V2SelUser(i, ok)
    \/ \E i \in PassIds, ok \in BOOLEAN : V2InsUser(i, ok)
    \/ \E i \in PassIds, ok \in BOOLEAN : V2SelConv(i, ok)
    \/ \E i \in PassIds, ok \in BOOLEAN : V2InsConv(i, ok)
    \/ \E i \in PassIds : V2Check(i)
    \/ \E i \in PassIds, ok \in BOOLEAN : V2Handle(i, ok)
    \/ \E i \in PassIds, ok \in BOOLEAN : V2SaveUser(i, ok)
    \/ \E i \in PassIds, ok \in BOOLEAN, reply_text \in Replies, valid \in BOOLEAN :
          V2Reply(i, ok, reply_text, valid)
    \/ \E i \in PassIds, ok \in BOOLEAN : V2Upload(i, ok)
    \/ \E i \in PassIds : V2Send(i)
    \/ \E i \in PassIds, ok \in BOOLEAN : V2SaveBot(i, ok)
    \/ \E i \in PassIds, ok \in BOOLEAN : V2Commit(i, ok)
    \/ \E i \in PassIds : V2BotError(i)
    \/ \E i \in PassIds, ok \in BOOLEAN : get_session(i, ok)
    \/ \E uid \in 1..MaxV2Passes, is_active \in BOOLEAN : toggle_user_status(uid, is_active)
    \/ \E cid \in 1..MaxV2Passes : close_conversation(cid)

SpecV2 == InitPipe /\ [][NextV2]_vars

(***************************************************************************)
(* SpecReply: generate_reply (app/services/ai_router.py), several calls at *)
(* once, one step per awaited agent run.                                   *)
(***************************************************************************)
Apology == "I'm sorry, I encountered an error processing your message. Please try again."
AgentOutput == "output"

CallIds == 1..Len(calls)

\* a call of generate_reply: image_data given or not, phone given or not
generate_reply(image_data, phone) ==
    /\ Len(calls) < MaxReplyCalls
    /\ calls' = Append(calls,
          [pc |-> "build", image_data |-> image_data, phone |-> phone,
           current_phone |-> NoMsg, agent |-> FALSE, runs |-> <<>>,
           result |-> "", raised |-> FALSE])
    /\ UNCHANGED <<castVars, httpVars, dbVars, passes, sent>>

\* the first except clause: with image data the text-only retry, which needs
\* `agent` and `history_text` to be bound (a NameError otherwise, caught by the
\* inner except); without, or after that, the apology
OnError_AlwaysRetry(c) ==
    IF c.agent
    THEN [c EXCEPT !.pc = "retry"]
    ELSE [c EXCEPT !.pc = "finally", !.result = Apology]

OnError(c) ==
    IF c.image_data /\ c.agent
    THEN [c EXCEPT !.pc = "retry"]
    ELSE [c EXCEPT !.pc = "finally", !.result = Apology]

\* lines 26-34: set_current_phone, build_agent_for_user, history_text
ReplyBuild(k, ok) ==
    LET c == [calls[k] EXCEPT !.current_phone = IF calls[k].phone # NoMsg
                                                   THEN calls[k].phone ELSE @]
    IN  /\ calls[k].pc = "build"
        /\ calls' = [calls EXCEPT ![k] =
              IF ok THEN [c EXCEPT !.pc = "run", !.agent = TRUE] ELSE OnError(c)]
        /\ UNCHANGED <<castVars, httpVars, dbVars, passes, sent>>

\* lines 36-61: the prompt (with the image when there is one) and agent.run
ReplyRun(k, ok) ==
    LET c == calls[k]
        run == [prompt |-> IF c.image_data THEN "text+image" ELSE "text", ok |-> ok]
        d == [c EXCEPT !.runs = Append(@, run)]
    IN  /\ c.pc = "run"
        /\ calls' = [calls EXCEPT ![k] =
              IF ok THEN [d EXCEPT !.pc = "finally", !.result = AgentOutput] ELSE OnError(d)]
        /\ UNCHANGED <<castVars, httpVars, dbVars, passes, sent>>

\* lines 65-74: the retry with "[Image sent]" in place of the image
ReplyRetry(k, ok) ==
    LET c == calls[k]
        run == [prompt |-> "text[Image sent]", ok |-> ok]
        d == [c EXCEPT !.runs = Append(@, run)]
    IN  /\ c.pc = "retry"
        /\ calls' = [calls EXCEPT ![k] =
              IF ok THEN [d EXCEPT !.pc = "finally", !.result = AgentOutput]
              ELSE [d EXCEPT !.pc = "finally", !.result = Apology]]
        /\ UNCHANGED <<castVars, httpVars, dbVars, passes, sent>>

\* lines 75-77: clear_current_phone, then the return
ReplyFinally(k) ==
    /\ calls[k].pc = "finally"
    /\ calls' = [calls EXCEPT ![k] = [@ EXCEPT !.pc = "done", !.current_phone = NoMsg]]
    /\ UNCHANGED <<castVars, httpVars, dbVars, passes, sent>>

NextReply ==
    \/ \E image_data \in BOOLEAN, phone \in {NoMsg, SeqPhone} : generate_reply(image_data, phone)
    \/ \E k \in CallIds, ok \in BOOLEAN : ReplyBuild(k, ok)
    \/ \E k \in CallIds, ok \in BOOLEAN : ReplyRun(k, ok)
    \/ \E k \in CallIds, ok \in BOOLEAN : ReplyRetry(k, ok)
    \/ \E k \in CallIds : ReplyFinally(k)

SpecReply == InitPipe /\ [][NextReply]_vars

(***************************************************************************)
(* SpecFn: the functions examined on their own, each call with arguments   *)
(* drawn from small sets; `calls` holds the call made and its result.        *)
(***************************************************************************)
\* a query parameter: absent (None) or a string, here a sequence of characters
\* or a word
Absent == [present |-> FALSE, value |-> <<>>]
Given(v) == [present |-> TRUE, value |-> v]

\* Python's truth of an Optional[str]
Truthy(q) == q.present /\ q.value # <<>>

Digits == {"0", "1", "2"}
DigitVal(ch) == CASE ch = "0" -> 0 [] ch = "1" -> 1 [] ch = "2" -> 2 [] OTHER -> 0

\* int(s): the value of a string of decimal digits, ValueError otherwise
RECURSIVE PyInt(_)
PyInt(s) ==
    IF s = <<>> THEN [ok |-> FALSE, value |-> 0]
    ELSE IF s[Len(s)] \notin Digits THEN [ok |-> FALSE, value |-> 0]
    ELSE IF Len(s) = 1 THEN [ok |-> TRUE, value |-> DigitVal(s[1])]
    ELSE LET rest == PyInt(SubSeq(s, 1, Len(s) - 1))
         IN  [ok |-> rest.ok, value |-> IF rest.ok THEN 10 * rest.value + DigitVal(s[Len(s)])
                                        ELSE 0]

\* validate_verify_token(received_token, expected_token)
validate_verify_token(received_token, expected_token) ==
    IF received_token = <<>> \/ expected_token = <<>> THEN FALSE
    ELSE received_token = expected_token

\* the answers of GET /webhook
Http(status, body) == [status |-> status, body |-> body]

\* GET /webhook: verify(hub_mode, hub_challenge, hub_verify_token), with
\* settings.WHATSAPP_VERIFY_TOKEN
verify_ChallengeFirst(hub_mode, hub_challenge, hub_verify_token, expected_token) ==
    IF ~Truthy(hub_mode) \/ ~Truthy(hub_challenge) \/ ~Truthy(hub_verify_token)
    THEN Http(400, 0)
    ELSE IF hub_mode.value # <<"subscribe">> THEN Http(400, 0)
    ELSE IF ~PyInt(hub_challenge.value).ok THEN Http(400, 0)
    ELSE IF ~validate_verify_token(hub_verify_token.value, expected_token) THEN Http(403, 0)
    ELSE Http(200, PyInt(hub_challenge.value).value)

verify(hub_mode, hub_challenge, hub_verify_token, expected_token) ==
    IF ~Truthy(hub_mode) \/ ~Truthy(hub_challenge) \/ ~Truthy(hub_verify_token)
    THEN Http(400, 0)
    ELSE IF hub_mode.value # <<"subscribe">> THEN Http(400, 0)
    ELSE IF ~validate_verify_token(hub_verify_token.value, expected_token) THEN Http(403, 0)
    ELSE IF PyInt(hub_challenge.value).ok THEN Http(200, PyInt(hub_challenge.value).value)
    ELSE Http(400, 0)

\* the strings of at most n characters over an alphabet
RECURSIVE StringsUpTo(_, _)
StringsUpTo(alphabet, n) ==
    IF n = 0 THEN {<<>>}
    ELSE LET shorter == StringsUpTo(alphabet, n - 1)
         IN  shorter \cup {Append(s, ch) : s \in shorter, ch \in alphabet}

Modes == {Absent, Given(<<>>), Given(<<"subscribe">>), Given(<<"unsubscribe">>)}
VERIFY_TOKEN == <<"your_verify_token_here">>
Tokens == {Absent, Given(<<>>), Given(VERIFY_TOKEN), Given(<<"wrong_token">>)}
Challenges == {Absent} \cup {Given(s) : s \in StringsUpTo({"1", "2", "x"}, MaxChallengeLen)}

VerifyCall(hub_mode, hub_challenge, hub_verify_token, expected_token) ==
    /\ calls = <<>>
    /\ calls' = <<[fn |-> "verify", hub_mode |-> hub_mode, hub_challenge |-> hub_challenge,
                   hub_verify_token |-> hub_verify_token, expected_token |-> expected_token,
                   result |-> verify(hub_mode, hub_challenge, hub_verify_token,
                                     expected_token)]>>
    /\ UNCHANGED <<castVars, httpVars, dbVars, passes, sent>>

\* the X-Hub-Signature-256 values tried: the pieces a header is made of
HeaderPieces ==
    {Lit("sha256="), Lit("sha1="), Lit("junk"),
     HexHmac(APP_SECRET, "body"), HexHmac(OtherKey, "body"), HexHmac(APP_SECRET, "tampered")}
Headers == {NoHeader} \cup {[present |-> TRUE, text |-> t] :
                               t \in StringsUpTo(HeaderPieces, MaxHeaderLen)}

SignatureCall(payload, signature, app_secret) ==
    /\ calls = <<>>
    /\ calls' = <<[fn |-> "verify_webhook_signature", payload |-> payload,
                   signature |-> signature, app_secret |-> app_secret,
                   result |-> verify_webhook_signature(payload, signature, app_secret)]>>
    /\ UNCHANGED <<castVars, httpVars, dbVars, passes, sent>>

\* the tool registry: name -> (enabled, min_tier), and the tiers a user can carry
\* ("" stands for None)
ToolNames == {"my_tool", "text_to_image", "image_to_image"}
Tiers == {"free", "plus", "pro", "gold"}
UserTiers == Tiers \cup {""}
Registries == [ToolNames -> [enabled : BOOLEAN, min_tier : Tiers]]

\* tier_order.get(tier, 0)
tier_order(tier) ==
    CASE tier = "free" -> 0 [] tier = "plus" -> 1 [] tier = "pro" -> 2 [] OTHER -> 0

\* BaseTool.is_valid_for_user
is_valid_for_user_Strict(tool, subscription_tier) ==
    IF ~tool.enabled THEN FALSE
    ELSE LET user_tier == IF subscription_tier = "" THEN "free" ELSE subscription_tier
         IN  tier_order(user_tier) > tier_order(tool.min_tier)

is_valid_for_user(tool, subscription_tier) ==
    IF ~tool.enabled THEN FALSE
    ELSE LET user_tier == IF subscription_tier = "" THEN "free" ELSE subscription_tier
         IN  tier_order(user_tier) >= tier_order(tool.min_tier)

\* get_tools_for_user(user), over the registry _TOOL_INSTANCES
get_tools_for_user(_TOOL_INSTANCES, subscription_tier) ==
    {name \in DOMAIN _TOOL_INSTANCES :
        is_valid_for_user(_TOOL_INSTANCES[name], subscription_tier)}

ToolsCall(registry, subscription_tier) ==
    /\ calls = <<>>
    /\ calls' = <<[fn |-> "get_tools_for_user", registry |-> registry,
                   subscription_tier |-> subscription_tier,
                   result |-> get_tools_for_user(registry, subscription_tier)]>>
    /\ UNCHANGED <<castVars, httpVars, dbVars, passes, sent>>

\* check_database: the import of `engine` from app.db.session fails (the module
\* defines async_engine and sync_engine only) and the error is caught
check_database(db_up) == "unhealthy"

\* check_redis, over check_redis_health
check_redis(redis_up) == IF redis_up THEN "healthy" ELSE "unhealthy"

\* check_whatsapp_api: the answer of the Graph API, or "error" when the request
\* raises
check_whatsapp_api(answer) ==
    IF answer = "error" THEN "unhealthy"
    ELSE IF answer = "200" THEN "healthy" ELSE "degraded"

\* GET /health/detailed: status_code is computed and dropped, the body is
\* returned as an ordinary response
detailed_health_check(db_up, redis_up, answer) ==
    LET database_health == check_database(db_up)
        redis_health == check_redis(redis_up)
        whatsapp_health == check_whatsapp_api(answer)
        all_healthy == /\ database_health = "healthy"
                       /\ redis_health \in {"healthy", "degraded"}
                       /\ whatsapp_health \in {"healthy", "degraded"}
    IN  [status_code |-> 200,
         status |-> IF all_healthy THEN "healthy" ELSE "unhealthy",
         database |-> database_health, redis |-> redis_health,
         whatsapp_api |-> whatsapp_health]

HealthCall(db_up, redis_up, answer) ==
    /\ calls = <<>>
    /\ calls' = <<[fn |-> "detailed_health_check",
                   result |-> detailed_health_check(db_up, redis_up, answer)]>>
    /\ UNCHANGED <<castVars, httpVars, dbVars, passes, sent>>

\* A reply text is the sequence of its whitespace-separated words; a word is
\* plain, the marker "IMAGE_URL:", a path, or a markdown image
\* "![alt](IMAGE_URL:path)". A path is the sequence of its scheme, if any, and
\* the rest.
PlainWord(w) == [kind |-> "word", text |-> <<w>>]
Marker == [kind |-> "marker", text |-> <<"IMAGE_URL:">>]
PathWord(path) == [kind |-> "path", text |-> path]
Markdown(path) == [kind |-> "markdown", text |-> path]

UrlPath == <<"http://", "img/x.png">>
LocalPath == <<"images/gen.jpg">>
MissingPath == <<"/nonexistent/path.jpg">>
\* the files on disk
LocalFiles == {LocalPath}

\* validate_media_path(path)
validate_media_path(path) ==
    IF path = <<>> THEN FALSE
    ELSE IF path[1] \in {"http://", "https://"} THEN TRUE
    ELSE path \in LocalFiles

\* "IMAGE_URL:" in text
ContainsMarker(text) == \E k \in 1..Len(text) : text[k].kind \in {"marker", "markdown"}

IsMarkdown(word) == word.kind = "markdown"
NotMarkdown(word) == word.kind # "markdown"

\* the first position of a word that satisfies Test
FirstAt(text, Test(_)) ==
    CHOOSE k \in 1..Len(text) : Test(text[k]) /\ \A j \in 1..(k - 1) : ~Test(text[j])

IsMarker(word) == word.kind = "marker"

\* lines 183-199: the caption and the path taken from a text that contains the
\* marker, before validation
ExtractParts(text) ==
    IF \E k \in 1..Len(text) : IsMarkdown(text[k])
    THEN [caption |-> SelectSeq(text, NotMarkdown),
          image_path |-> text[FirstAt(text, IsMarkdown)].text]
    ELSE LET at == FirstAt(text, IsMarker)
         IN  [caption |-> SubSeq(text, 1, at - 1),
              image_path |-> IF at < Len(text) THEN text[at + 1].text ELSE <<>>]

\* extract_image_url_from_text(text): (caption, image_path or None)
extract_image_url_from_text(text) ==
    IF ~ContainsMarker(text)
    THEN [caption |-> text, has_path |-> FALSE, image_path |-> <<>>]
    ELSE LET parts == ExtractParts(text)
         IN  IF ~validate_media_path(parts.image_path)
             THEN [caption |-> IF parts.caption # <<>> THEN parts.caption ELSE text,
                   has_path |-> FALSE, image_path |-> <<>>]
             ELSE [caption |-> parts.caption, has_path |-> TRUE,
                   image_path |-> parts.image_path]

TextWords ==
    {PlainWord("Sure!"), Marker, PathWord(UrlPath), PathWord(LocalPath), PathWord(MissingPath),
     Markdown(LocalPath), Markdown(MissingPath)}
ReplyTexts == StringsUpTo(TextWords, MaxTextLen)

ExtractCall(text) ==
    /\ calls = <<>>
    /\ calls' = <<[fn |-> "extract_image_url_from_text", text |-> text,
                   result |-> extract_image_url_from_text(text)]>>
    /\ UNCHANGED <<castVars, httpVars, dbVars, passes, sent>>

\* Redis user_image:<phone>: the path the image handler stored, or none
NoImage == ""
ImagePaths == {"images/incoming_1.jpg", "images/incoming_2.jpg"}
UserImages == [Phones -> ImagePaths \cup {NoImage}]

\* get_user_current_image(phone)
get_user_current_image(user_image, phone) == user_image[phone]

\* ImageToImageTool.process(text, **kwargs): `tag` is the path of a
\* [USER_IMAGE_PATH:...] tag in the instruction, if the agent wrote one;
\* the result names the phone the tool acted for and the path it transformed
process(tag, kwargs, user_image, api_key, transform_ok) ==
    LET phone == kwargs.phone
        stored == IF phone # NoMsg THEN get_user_current_image(user_image, phone)
                  ELSE NoImage
        image_path == IF stored = NoImage THEN tag ELSE stored
    IN  IF image_path = NoImage
        THEN [phone |-> phone, transformed |-> NoImage, reply |-> "No image found."]
        ELSE IF ~api_key
        THEN [phone |-> phone, transformed |-> NoImage, reply |-> "not configured"]
        ELSE IF ~transform_ok
        THEN [phone |-> phone, transformed |-> NoImage, reply |-> "Sorry"]
        ELSE [phone |-> phone, transformed |-> image_path, reply |-> "IMAGE_URL:"]

\* BaseTool.to_pydanticai_tool: _tool(text) calls self.process(text=text), with
\* no other keyword; the slot set by set_current_phone is not read
_tool(tag, current_phone, user_image, api_key, transform_ok) ==
    process(tag, [phone |-> NoMsg], user_image, api_key, transform_ok)

\* the agent invokes image_to_image during generate_reply for `phone`, which
\* set the ambient slot to it (ai_router.py:27-28)
ToolCall(phone, tag, user_image, api_key, transform_ok) ==
    /\ calls = <<>>
    /\ calls' = <<[fn |-> "image_to_image", phone |-> phone, tag |-> tag,
                   user_image |-> user_image, api_key |-> api_key,
                   transform_ok |-> transform_ok,
                   result |-> _tool(tag, phone, user_image, api_key, transform_ok)]>>
    /\ UNCHANGED <<castVars, httpVars, dbVars, passes, sent>>

NextFn ==
    \/ \E hub_mode \in Modes, hub_challenge \in Challenges, hub_verify_token \in Tokens,
          expected_token \in {VERIFY_TOKEN, <<>>} :
          VerifyCall(hub_mode, hub_challenge, hub_verify_token, expected_token)
    \/ \E payload \in {"body", "tampered"}, signature \in Headers,
          app_secret \in {APP_SECRET, ""} :
          SignatureCall(payload, signature, app_secret)
    \/ \E registry \in Registries, subscription_tier \in UserTiers :
          ToolsCall(registry, subscription_tier)
    \/ \E db_up \in BOOLEAN, redis_up \in BOOLEAN, answer \in {"200", "401", "error"} :
          HealthCall(db_up, redis_up, answer)
    \/ \E text \in ReplyTexts : ExtractCall(text)
    \/ \E phone \in Phones, tag \in ImagePaths \cup {NoImage}, user_image \in UserImages,
          api_key \in BOOLEAN, transform_ok \in BOOLEAN :
          ToolCall(phone, tag, user_image, api_key, transform_ok)

SpecFn == InitPipe /\ [][NextFn]_vars

(***************************************************************************)
(* SpecDrain: get_and_clear_queued_messages called while append_message    *)
(* calls for the same phone are under way, Redis reachable, no key         *)
(* expiring.  An append is the busy path of the gate from its LLEN on; a   *)
(* drain is one MULTI/EXEC transaction (redis-py's pipeline() is           *)
(* transactional unless told otherwise), hence one step.                   *)
(***************************************************************************)
\* redis LRANGE key start stop, with Redis's 0-based, possibly negative, indexes
LRange(q, start, stop) ==
    LET from == IF start < 0 THEN Len(q) + start + 1 ELSE start + 1
        to == IF stop < 0 THEN Len(q) + stop + 1 ELSE stop + 1
    IN  SubSeq(q, IF from < 1 THEN 1 ELSE from, IF to > Len(q) THEN Len(q) ELSE to)

\* get_and_clear_queued_messages: LRANGE 0 -1 and DELETE, then results[0]
get_and_clear_queued_messages_ShortRange(q) ==
    [messages |-> LRange(q, 0, -2), queue |-> <<>>]

get_and_clear_queued_messages(q) ==
    [messages |-> LRange(q, 0, -1), queue |-> <<>>]

\* a new append_message call, whatever the other calls are doing
DrainAppend ==
    /\ Len(reqs) < MaxDrainAppends
    /\ reqs' = Append(reqs, [NewReq(SeqPhone, TextNames[Len(reqs) + 1], TRUE) EXCEPT
                                !.pc = "append_llen", !.path = "busy"])
    /\ UNCHANGED <<castVars, pipeVars, redisVars, arq, secret, rlVars>>

\* the appends that are between their LLEN and their return
AppendsUnderWay == {i \in ReqIds : reqs[i].pc \in {"append_rpush", "append_expire"}}

\* a get_and_clear_queued_messages call; the call and what it returned are kept
Drain ==
    LET r == get_and_clear_queued_messages(queue[SeqPhone])
    IN  /\ Len(calls) < MaxDrains
        /\ calls' = Append(calls, [fn |-> "get_and_clear_queued_messages",
                                   messages |-> r.messages, during |-> AppendsUnderWay])
        /\ queue' = [queue EXCEPT ![SeqPhone] = r.queue]
        /\ qttl' = [qttl EXCEPT ![SeqPhone] = FALSE]
        /\ UNCHANGED <<castVars, dbVars, passes, sent, lock, reqs, arq, secret, rlVars>>

NextDrain ==
    \/ DrainAppend
    \/ \E i \in ReqIds : AppendLLen(i, TRUE)
    \/ \E i \in ReqIds : AppendRPush(i, TRUE)
    \/ \E i \in ReqIds : AppendExpire(i, TRUE)
    \/ Drain

SpecDrain == InitSeq /\ [][NextDrain]_vars

(***************************************************************************)
(* SpecCast: POST /admin/broadcast and its background task                 *)
(* send_broadcast_messages.  Every database operation of the task may      *)
(* raise; the send functions of whatsapp_client never do.  A row keeps the *)
(* statuses committed for it so far in `history`.                          *)
(***************************************************************************)
CastUserRows ==
    { [id |-> 1, phone |-> "p1", is_active |-> TRUE, subscription_tier |-> "free"],
      [id |-> 2, phone |-> "p2", is_active |-> FALSE, subscription_tier |-> "free"],
      [id |-> 3, phone |-> "p3", is_active |-> TRUE, subscription_tier |-> "pro"] }

CastIds == DOMAIN broadcasts

\* Broadcast(..., status="pending"), counters at their defaults
NewBroadcast(target_tier, target_status, image) ==
    [status |-> "pending", target_tier |-> target_tier, target_status |-> target_status,
     image |-> image, total_recipients |-> 0, sent_count |-> 0, failed_count |-> 0,
     history |-> <<"pending">>]

\* the task's local state: its copy of the row, the users still to be served,
\* the counters, and what became of each send
NewTask == [pc |-> "get", broadcast |-> NewBroadcast("", "active", FALSE), users |-> {},
            sent |-> 0, failed |-> 0, outcomes |-> <<>>]

\* session.commit() of the task's copy of the row
Committed(row, obj) ==
    [obj EXCEPT !.history = IF obj.status = row.status THEN row.history
                            ELSE Append(row.history, obj.status)]

\* POST /admin/broadcast
create_broadcast(target_tier, target_status, image, ok) ==
    /\ Len(broadcasts) < MaxBroadcasts
    /\ IF target_tier \notin {"", "free", "plus", "pro"} \/ ~ok
       THEN UNCHANGED castVars
       ELSE /\ broadcasts' = Append(broadcasts, NewBroadcast(target_tier, target_status, image))
            /\ tasks' = Append(tasks, NewTask)
    /\ UNCHANGED <<httpVars, pipeVars>>

\* lines 54-57: session.get; when it raises, the handler at 113-118 reads the
\* unassigned `broadcast` and raises in its turn
CastGet(b, ok) ==
    /\ tasks[b].pc = "get"
    /\ tasks' = [tasks EXCEPT ![b] =
          IF ok THEN [@ EXCEPT !.pc = "start", !.broadcast = broadcasts[b]]
          ELSE [@ EXCEPT !.pc = "raised"]]
    /\ UNCHANGED <<httpVars, pipeVars, broadcasts>>

\* lines 60-63
CastStart(b, ok) ==
    LET obj == [tasks[b].broadcast EXCEPT !.status = "in_progress"]
    IN  /\ tasks[b].pc = "start"
        /\ tasks' = [tasks EXCEPT ![b] =
              [@ EXCEPT !.pc = IF ok THEN "query" ELSE "except",
                        !.broadcast = IF ok THEN Committed(broadcasts[b], obj) ELSE obj]]
        /\ broadcasts' = IF ok THEN [broadcasts EXCEPT ![b] = Committed(@, obj)]
                         ELSE broadcasts
        /\ UNCHANGED <<httpVars, pipeVars>>

\* lines 66-74: the target users
TargetUsers(broadcast) ==
    {u \in users :
        /\ broadcast.target_status = "active" => u.is_active
        /\ broadcast.target_tier # "" => u.subscription_tier = broadcast.target_tier}

\* lines 66-77
CastQuery(b, ok) ==
    LET found == TargetUsers(tasks[b].broadcast)
        obj == [tasks[b].broadcast EXCEPT !.total_recipients = Cardinality(found)]
    IN  /\ tasks[b].pc = "query"
        /\ tasks' = [tasks EXCEPT ![b] =
              IF ok THEN [@ EXCEPT !.pc = "send", !.users = found,
                                   !.broadcast = Committed(broadcasts[b], obj)]
              ELSE [@ EXCEPT !.pc = "except"]]
        /\ broadcasts' = IF ok THEN [broadcasts EXCEPT ![b] = Committed(@, obj)]
                         ELSE broadcasts
        /\ UNCHANGED <<httpVars, pipeVars>>

\* send_whatsapp_text / send_whatsapp_image: every error of the request is
\* caught and logged, nothing is returned or raised
SendRaises(delivered) == FALSE

\* lines 85-101, one turn of the loop: `loaded` is whether user.phone could be
\* read, `delivered` whether the platform accepted the message
CastSend(b, loaded, delivered) ==
    LET t == tasks[b]
        user == CHOOSE u \in t.users : \A v \in t.users : u.id <= v.id
        raised == ~loaded \/ SendRaises(delivered)
    IN  /\ t.pc = "send" /\ t.users # {}
        /\ tasks' = [tasks EXCEPT ![b] =
              [@ EXCEPT !.users = @ \ {user},
                        !.sent = IF raised THEN @ ELSE @ + 1,
                        !.failed = IF raised THEN @ + 1 ELSE @,
                        !.outcomes = Append(@, [to |-> user.phone,
                                                outcome |-> IF ~loaded THEN "not_sent"
                                                            ELSE IF delivered THEN "delivered"
                                                            ELSE "rejected"])]]
        /\ UNCHANGED <<httpVars, pipeVars, broadcasts>>

\* lines 104-109
CastComplete(b, ok) ==
    LET t == tasks[b]
        obj == [t.broadcast EXCEPT !.sent_count = t.sent, !.failed_count = t.failed,
                                   !.status = "completed"]
    IN  /\ t.pc = "send" /\ t.users = {}
        /\ tasks' = [tasks EXCEPT ![b] =
              [@ EXCEPT !.pc = IF ok THEN "done" ELSE "except",
                        !.broadcast = IF ok THEN Committed(broadcasts[b], obj) ELSE obj]]
        /\ broadcasts' = IF ok THEN [broadcasts EXCEPT ![b] = Committed(@, obj)]
                         ELSE broadcasts
        /\ UNCHANGED <<httpVars, pipeVars>>

\* lines 113-118: the handler; its own commit may raise as well, and then the
\* task ends with the exception
CastExcept(b, ok) ==
    LET obj == [tasks[b].broadcast EXCEPT !.status = "failed"]
    IN  /\ tasks[b].pc = "except"
        /\ tasks' = [tasks EXCEPT ![b] =
              [@ EXCEPT !.pc = IF ok THEN "done" ELSE "raised",
                        !.broadcast = IF ok THEN Committed(broadcasts[b], obj) ELSE obj]]
        /\ broadcasts' = IF ok THEN [broadcasts EXCEPT ![b] = Committed(@, obj)]
                         ELSE broadcasts
        /\ UNCHANGED <<httpVars, pipeVars>>

InitCast ==
    /\ lock = [p \in Phones |-> FALSE]
    /\ queue = [p \in Phones |-> <<>>]
    /\ qttl = [p \in Phones |-> FALSE]
    /\ reqs = <<>>
    /\ arq = <<>>
    /\ secret = FALSE
    /\ requests = [i \in Idents |-> <<>>]
    /\ now = 0
    /\ rlog = <<>>
    /\ users \in SUBSET CastUserRows
    /\ convs = {}
    /\ msgs = {}
    /\ passes = <<>>
    /\ sent = <<>>
    /\ calls = <<>>
    /\ broadcasts = <<>>
    /\ tasks = <<>>

NextCast ==
    \/ \E target_tier \in {"", "free", "gold"}, target_status \in {"active", "all"},
          image \in BOOLEAN, ok \in BOOLEAN :
          create_broadcast(target_tier, target_status, image, ok)
    \/ \E b \in CastIds, ok \in BOOLEAN : CastGet(b, ok)
    \/ \E b \in CastIds, ok \in BOOLEAN : CastStart(b, ok)
    \/ \E b \in CastIds, ok \in BOOLEAN : CastQuery(b, ok)
    \/ \E b \in CastIds, loaded \in BOOLEAN, delivered \in BOOLEAN :
          CastSend(b, loaded, delivered)
    \/ \E b \in CastIds, ok \in BOOLEAN : CastComplete(b, ok)
    \/ \E b \in CastIds, ok \in BOOLEAN : CastExcept(b, ok)

SpecCast == InitCast /\ [][NextCast]_vars

(***************************************************************************)
(* Claims.                                                                 *)
(***************************************************************************)
JobsOf(i) == {j \in JobIds : arq[j].id = i}

\* a pass for phone p ends in this step: a running job finishes or an inline
\* call returns
PassEnds(p) ==
    \/ \E j \in JobIds :
          /\ arq[j].st = "running" /\ arq'[j].st = "done"
          /\ arq[j].payload.msg # NoMsg /\ arq[j].payload.from = p
    \/ \E i \in ReqIds :
          /\ reqs[i].pc = "inline" /\ reqs'[i].pc = "done"
          /\ reqs[i].msg # NoMsg /\ reqs[i].phone = p

\* the same, for a delivery the gate forwarded after taking the lock
LockedPassEnds(p) ==
    \/ \E j \in JobIds :
          /\ arq[j].st = "running" /\ arq'[j].st = "done"
          /\ arq[j].payload.msg # NoMsg /\ arq[j].payload.from = p
          /\ reqs[arq[j].id].path = "locked"
    \/ \E i \in ReqIds :
          /\ reqs[i].pc = "inline" /\ reqs'[i].pc = "done"
          /\ reqs[i].msg # NoMsg /\ reqs[i].phone = p
          /\ reqs[i].path = "locked"

\* C1: for every phone at most one AI-processing pass (a running job or an
\* inline handle_incoming_webhook) is active at any time.
C1_AtMostOnePass == \A p \in Phones : ActivePasses(p) <= 1

\* C2: when a pass whose delivery took the processing lock at the gate exits,
\* the lock of its phone is released, whatever the exit path.
C2_LockReleasedOnExit ==
    [][\A p \in Phones : LockedPassEnds(p) => ~lock'[p]]_vars

\* C3: no message accepted into a pending queue is dropped: messages leave the
\* queue only by being handed, joined, to a resubmitted job.
C3_NoQueuedMessageDropped ==
    [][\A p \in Phones :
          (Len(queue'[p]) < Len(queue[p])) =>
             \E j \in (Len(arq) + 1)..Len(arq') :
                /\ arq'[j].payload.from = p
                /\ arq'[j].payload.msg = JoinBlank(queue[p])]_vars

\* C4: when a pass for P ends with k >= 1 queued messages, exactly one new job
\* is enqueued, of type text, from P, whose body is the messages joined in
\* arrival order by a blank line; with k = 0 no job is enqueued.
C4_DrainResubmitsOneJob ==
    [][\A p \in Phones :
          PassEnds(p) =>
             IF queue[p] # <<>>
             THEN /\ Len(arq') = Len(arq) + 1
                  /\ arq'[Len(arq')].payload =
                        [from |-> p, msg |-> JoinBlank(queue[p]), type |-> "text"]
             ELSE Len(arq') = Len(arq)]_vars

\* C5: a delivery the gate queues (lock held, or lock lost in a race) is answered
\* 429 Queue full when append_message reports the queue at capacity and
\* 200 queued with the new length otherwise, on both paths alike.
C5_GateAnswersAlike ==
    \A i \in ReqIds :
        (reqs[i].pc = "done" /\ reqs[i].path \in {"busy", "race"}) =>
            /\ reqs[i].ret = -1 => reqs[i].resp = "queue_full"
            /\ reqs[i].ret >= 1 => reqs[i].resp = "queued"

\* C7: a delivery the gate answers itself (queued, Queue full) was not counted
\* by the rate limiter.
C7_GateAnswerNotCounted ==
    \A i \in ReqIds :
        reqs[i].resp \in {"queued", "queue_full"} => ~reqs[i].counted

\* C9: with an app secret configured, a delivery whose signature header is
\* missing or does not verify, once the application has handled it (the rate
\* limiter let it in), is answered 401, and it is neither enqueued as a job nor
\* passed to handle_incoming_webhook.
C9_UnsignedRejected ==
    secret =>
        \A i \in ReqIds :
            (~reqs[i].signed /\ reqs[i].counted) =>
                /\ reqs[i].pc = "done" => reqs[i].resp = "401"
                /\ JobsOf(i) = {}
                /\ reqs[i].inline = 0

\* C10: a delivery that passed signature and schema validation is handled
\* exactly once: one job enqueued, or, only when enqueueing raised, one inline
\* handle_incoming_webhook; and its answer is 200 {status: ok}.
C10_HandledExactlyOnce ==
    \A i \in ReqIds :
        /\ reqs[i].validated =>
              /\ Cardinality(JobsOf(i)) + reqs[i].inline = 1
              /\ reqs[i].inline = 1 <=> reqs[i].enqErr
              /\ reqs[i].pc \in {"inline", "done"}
              /\ reqs[i].pc = "done" => reqs[i].resp = "ok"
        /\ ~reqs[i].validated => (JobsOf(i) = {} /\ reqs[i].inline = 0)

\* both ways of handling happened: one delivery enqueued, one handled inline
C10_Witness ==
    /\ \E i \in ReqIds :
          reqs[i].validated /\ reqs[i].resp = "ok" /\ Cardinality(JobsOf(i)) = 1
    /\ \E i \in ReqIds :
          reqs[i].validated /\ reqs[i].resp = "ok" /\ reqs[i].inline = 1

\* C6: sequential append_message calls on an empty queue with maximum M: the
\* i-th call (i <= M) appends at the tail and returns i; every later call
\* returns -1 and leaves the queue as it was.
Pushed == {i \in ReqIds : i <= max_size /\ reqs[i].pc \in {"append_expire", "done"}}

AdmittedIn(identifier, from, to) ==
    {k \in 1..Len(rlog) : rlog[k].id = identifier /\ rlog[k].allowed
                          /\ from <= rlog[k].t /\ rlog[k].t < to}

\* the admitted calls of the identifier of call k that came before it and are
\* less than a window old
RecentBefore(k) ==
    {j \in 1..(k - 1) : rlog[j].id = rlog[k].id /\ rlog[j].allowed
                        /\ rlog[j].t > rlog[k].t - WindowSeconds}

C8_RateLimit ==
    /\ \A k \in 1..Len(rlog) :
          \* a window holding admitted calls may start at the first of them
          Cardinality(AdmittedIn(rlog[k].id, rlog[k].t, rlog[k].t + WindowSeconds))
             <= requests_per_minute
    /\ \A k \in 1..Len(rlog) :
          LET n == Cardinality(RecentBefore(k))
          IN  IF n >= requests_per_minute
              THEN ~rlog[k].allowed /\ rlog[k].remaining = 0
              ELSE rlog[k].allowed /\ rlog[k].remaining = requests_per_minute - n - 1

\* one identifier is rejected while, at the same instant, another is admitted
C8_Witness ==
    \E k, j \in 1..Len(rlog) :
        /\ ~rlog[k].allowed /\ rlog[k].remaining = 0
        /\ j > k /\ rlog[j].id # rlog[k].id /\ rlog[j].t = rlog[k].t /\ rlog[j].allowed

\* the passes that have come to their end
Ended(i) == passes[i].pc \in {"returned", "raised"}

\* C11: when the processing of a webhook fails inside a process_webhook_message
\* job, the job fails (the error is re-raised) so that the queue retries it.
C11_FailedJobReraises ==
    \A i \in PassIds :
        (passes[i].job # "running" /\ passes[i].failed) => passes[i].job = "failed"

\* C12: handle_incoming_webhook never raises, and the status of its result is
\* one of success, skipped, rate_limited, error.
C12_NeverRaises ==
    \A i \in PassIds :
        Ended(i) =>
            /\ ~passes[i].raised
            /\ passes[i].status \in {"success", "skipped", "rate_limited", "error"}

\* the messages a pass handed to the messaging platform
SentBy(i) == SelectSeq(sent, LAMBDA m : m.pass = i)

C16_FailureRollsBack ==
    \A i \in PassIds :
        Ended(i) =>
            /\ ~passes[i].open
            /\ passes[i].failed => \A m \in msgs : m.pass # i

\* C17: generate_reply never raises; it runs the agent at most twice, the
\* second time only with a text-only prompt after a failed run that had image
\* data; and it returns the fixed apology whenever no run succeeded.
C17_ReplyNeverRaises ==
    \A k \in CallIds :
        LET c == calls[k]
        IN  /\ ~c.raised
            /\ Len(c.runs) <= 2
            /\ Len(c.runs) = 2 =>
                  /\ c.image_data
                  /\ c.runs[1] = [prompt |-> "text+image", ok |-> FALSE]
                  /\ c.runs[2].prompt = "text[Image sent]"
            /\ c.pc = "done" =>
                  c.result = (IF \E n \in 1..Len(c.runs) : c.runs[n].ok
                              THEN AgentOutput ELSE Apology)

\* a call whose two runs failed and returned the apology, and one saved by the
\* text-only retry
C17_Witness ==
    /\ \E k \in CallIds :
          calls[k].pc = "done" /\ Len(calls[k].runs) = 2 /\ calls[k].result = Apology
    /\ \E k \in CallIds :
          calls[k].pc = "done" /\ Len(calls[k].runs) = 2 /\ calls[k].result = AgentOutput

\* the call made under SpecFn is a call of fn
Called(fn) == calls # <<>> /\ calls[1].fn = fn

\* a string of decimal digits, and the number it writes
IsNumeric(s) == s # <<>> /\ \A n \in 1..Len(s) : s[n] \in Digits
RECURSIVE Number(_)
Number(s) == IF s = <<>> THEN 0
             ELSE 10 * Number(SubSeq(s, 1, Len(s) - 1)) + DigitVal(s[Len(s)])

\* the conditions of a successful GET /webhook, for the call made
AllPresent == Truthy(calls[1].hub_mode) /\ Truthy(calls[1].hub_challenge)
                 /\ Truthy(calls[1].hub_verify_token)
ModeOk == calls[1].hub_mode.value = <<"subscribe">>
TokenOk == calls[1].hub_verify_token.value = calls[1].expected_token
ChallengeOk == IsNumeric(calls[1].hub_challenge.value)

\* C18 (as stated): GET /webhook answers 200 with the challenge as an integer
\* exactly when the three parameters are present, the mode is "subscribe", the
\* token is the configured one and the challenge is numeric; otherwise 403 when
\* the token is the only failing condition, and 400 in every other case.
C18_VerifyAsStated ==
    Called("verify") =>
        calls[1].result =
            IF AllPresent /\ ModeOk /\ TokenOk /\ ChallengeOk
            THEN Http(200, Number(calls[1].hub_challenge.value))
            ELSE IF AllPresent /\ ModeOk /\ ChallengeOk THEN Http(403, 0)
            ELSE Http(400, 0)

\* C18 (amended): GET /webhook answers 200 with the challenge as an integer
\* exactly when the three parameters are present and non-empty, the mode is
\* "subscribe", the token is the configured one and the challenge is numeric;
\* otherwise 400 when a parameter is missing or empty or the mode is wrong,
\* else 403 when the token differs, whether or not the challenge is numeric,
\* and 400 only then for a non-numeric challenge.
C18_VerifyTokenBeforeChallenge ==
    Called("verify") =>
        calls[1].result =
            IF ~AllPresent \/ ~ModeOk THEN Http(400, 0)
            ELSE IF ~TokenOk THEN Http(403, 0)
            ELSE IF ~ChallengeOk THEN Http(400, 0)
            ELSE Http(200, Number(calls[1].hub_challenge.value))

\* a wrong token with a non-numeric challenge, answered 403
C18_Witness ==
    /\ Called("verify")
    /\ AllPresent /\ ModeOk
    /\ ~TokenOk /\ ~ChallengeOk
    /\ calls[1].result = Http(403, 0)

\* C19: verify_webhook_signature returns true if and only if the secret and
\* the header are non-empty and the header is exactly "sha256=" followed by the
\* hex HMAC-SHA256 of the body under the secret.
C19_SignatureExact ==
    Called("verify_webhook_signature") =>
        (calls[1].result <=>
            /\ calls[1].app_secret # ""
            /\ calls[1].signature.present
            /\ calls[1].signature.text =
                  <<Lit("sha256="), HexHmac(calls[1].app_secret, calls[1].payload)>>)

\* the rank of a tier: free=0 < plus=1 < pro=2, anything else 0
Rank(tier) == IF tier = "plus" THEN 1 ELSE IF tier = "pro" THEN 2 ELSE 0

\* C20: get_tools_for_user returns exactly the registered tools that are
\* enabled and whose min_tier rank is at most the user's tier rank; so what a
\* lower tier sees is a subset of what a higher tier sees.
C20_ToolsByTier ==
    Called("get_tools_for_user") =>
        LET reg == calls[1].registry
            tier == calls[1].subscription_tier
        IN  /\ calls[1].result =
                  {name \in ToolNames :
                      reg[name].enabled /\ Rank(reg[name].min_tier) <= Rank(tier)}
            /\ \A lower \in UserTiers :
                  Rank(lower) <= Rank(tier) =>
                      get_tools_for_user(reg, lower) \subseteq calls[1].result

\* a pro user who sees an enabled pro tool that a plus user does not, next to
\* a disabled free tool nobody sees
C20_Witness ==
    /\ Called("get_tools_for_user")
    /\ calls[1].subscription_tier = "pro"
    /\ \E name \in calls[1].result :
          /\ calls[1].registry[name].min_tier = "pro"
          /\ name \notin get_tools_for_user(calls[1].registry, "plus")
    /\ \E name \in ToolNames :
          /\ calls[1].registry[name] = [enabled |-> FALSE, min_tier |-> "free"]
          /\ name \notin calls[1].result

\* C21: GET /health/detailed answers 200 exactly when the database check is
\* healthy and the Redis and messaging-platform checks are each healthy or
\* degraded, and 503 for every other combination.
C21_DetailedHealthStatus ==
    Called("detailed_health_check") =>
        LET r == calls[1].result
        IN  r.status_code =
                IF /\ r.database = "healthy"
                   /\ r.redis \in {"healthy", "degraded"}
                   /\ r.whatsapp_api \in {"healthy", "degraded"}
                THEN 200 ELSE 503

\* C22: for every text that contains the IMAGE_URL: marker and whose extracted
\* path is neither an http(s) URL nor an existing local file,
\* extract_image_url_from_text returns no image path and the original,
\* unmodified text as the caption.
C22_InvalidPathKeepsText ==
    Called("extract_image_url_from_text") =>
        LET text == calls[1].text
        IN  (ContainsMarker(text) /\ ~validate_media_path(ExtractParts(text).image_path)) =>
                /\ ~calls[1].result.has_path
                /\ calls[1].result.caption = text

\* the statuses a broadcast may pass through, one after the other
CastStep(from, to) ==
    \/ from = "pending" /\ to \in {"in_progress", "failed"}
    \/ from = "in_progress" /\ to \in {"completed", "failed"}

Delivered(b) ==
    {n \in 1..Len(tasks[b].outcomes) : tasks[b].outcomes[n].outcome = "delivered"}

RECURSIVE Returned(_)
Returned(n) == IF n = 0 THEN <<>> ELSE Returned(n - 1) \o calls[n].messages

\* everything drained so far, followed by what is still queued
DrainedThenQueued == Returned(Len(calls)) \o queue[SeqPhone]

IsPrefix(s, t) == Len(s) <= Len(t) /\ SubSeq(t, 1, Len(s)) = s

\* C24: under any interleaving of get_and_clear_queued_messages with
\* concurrent append_message calls for one phone, every accepted message is in
\* the list a drain returned or still in the queue, never lost and never
\* returned twice, and the returned lists are in append order: the drained
\* lists followed by the queue only ever grow at the tail, hold no message
\* twice, and hold every message whose append returned its position.
C24_DrainLosesNothing ==
    [][/\ IsPrefix(DrainedThenQueued, DrainedThenQueued')
       /\ \A m, n \in 1..Len(DrainedThenQueued') :
             DrainedThenQueued'[m] = DrainedThenQueued'[n] => m = n
       /\ \A i \in DOMAIN reqs' :
             (reqs'[i].pc = "done" /\ reqs'[i].ret >= 1) =>
                 \E n \in 1..Len(DrainedThenQueued') : DrainedThenQueued'[n] = reqs'[i].msg
      ]_vars

\* a drain that returned a message while another append was under way, whose
\* message is in the queue now
C24_Witness ==
    \E k \in 1..Len(calls) :
        /\ calls[k].messages # <<>>
        /\ \E i \in calls[k].during :
              /\ reqs[i].pc = "done" /\ reqs[i].ret >= 1
              /\ \E n \in 1..Len(queue[SeqPhone]) : queue[SeqPhone][n] = reqs[i].msg

\* C25: in every reachable state the pending queue of every phone holds at
\* most USER_QUEUE_MAX_SIZE messages, under any interleaving of concurrent
\* append_message calls for that phone.
C25_QueueWithinMaxSize ==
    \A p \in Phones : Len(queue[p]) <= max_size

\* C26: when the agent invokes image_to_image during generate_reply for phone
\* P, after the image handler stored a current-image path for P, the tool
\* learns P from the ambient phone slot and transforms exactly the path stored
\* for P.
C26_ToolUsesStoredImage ==
    (Called("image_to_image") /\ calls[1].api_key /\ calls[1].transform_ok
        /\ calls[1].user_image[calls[1].phone] # NoImage) =>
        /\ calls[1].result.phone = calls[1].phone
        /\ calls[1].result.transformed = calls[1].user_image[calls[1].phone]

\* C27: whenever the gate answers a webhook with status 'queued', that
\* webhook's message text is stored in the phone's pending queue at that
\* moment, at the reported queue_position; the gate never reports 'queued'
\* for a message it did not store.
C27_QueuedMeansStored ==
    [][\A i \in ReqIds :
          (reqs[i].resp # "queued" /\ reqs'[i].resp = "queued") =>
              /\ reqs'[i].ret \in 1..Len(queue'[reqs[i].phone])
              /\ queue'[reqs[i].phone][reqs'[i].ret] = reqs[i].msg
      ]_vars

\* C28: a POST /webhook that the route rejects with 400 or 401 leaves the
\* processing lock and the pending queue of every phone as they were before
\* the request: while every delivery so far was rejected so, no lock is held
\* and no queue holds a message.
C28_RejectedLeavesNoTrace ==
    (reqs # <<>> /\ \A i \in ReqIds : reqs[i].resp \in {"400", "401"}) =>
        \A p \in Phones : ~lock[p] /\ queue[p] = <<>>

\* C29: in every reachable state, if a phone's pending queue is non-empty then
\* that phone's processing lock is held.
C29_QueuedImpliesLocked ==
    \A p \in Phones : queue[p] # <<>> => lock[p]

====
